---------------------------- MODULE Spec2Model ----------------------------
(***************************************************************************)
(* Export pipeline of the audio visualizer (VideoExporter) together with   *)
(* the Home page that mounts it.                                           *)
(*                                                                         *)
(* One VideoExporter instance is one export run.  Its async functions     *)
(* load / exportVideo / captureFrames are cut at their await points: pc    *)
(* names the await a run is suspended at, and each action is the           *)
(* synchronous code that runs when that await settles.                     *)
(*                                                                         *)
(* Durations are exact rationals, audioAsset.dur / DurDen seconds; the     *)
(* floating point rounding of the browser is not modelled.                 *)
(***************************************************************************)
EXTENDS Integers, Sequences, FiniteSets, TLC

VARIABLES
    audioAsset,        \* the audio file the user has: [dur, decodable]
    imageAsset,        \* the image file the user has: [loadable]
    exportSettings,    \* ExportSettings prop of the exporter: [fps]
    audioFile,         \* Home state: an audio file is selected
    imageFile,         \* Home state: an image file is selected
    isProcessing,      \* Home state
    exportProgress,    \* Home state
    exportError,       \* Home state: "null" or the message
    exportedVideoUrl,  \* Home state: 0 (null) or the run whose blob URL it is
    run,               \* the VideoExporter instances, by run id
    mounted,           \* id of the instance now mounted by Home, 0 if none
    nRuns,             \* instances created so far
    reloads,           \* times the Home page was torn down and mounted again
    isPreviewing,      \* Home state
    visualizerSettings,\* Home state: identity of the settings object, 0 the default
    restartTimer,      \* pending setTimeout(() => setIsPreviewing(true), 50)
    proc,              \* the VideoProcessor (live preview) and its effect closures
    bar,               \* a bar to paint: [colorScheme, barHeight, value]
    fill,              \* the fillStyle computed for it by the export and the preview
    canvas,            \* a frame composed for it by the export and the preview
    legacy,            \* the earlier VideoProcessor (the preview without settings)
    visualizer,        \* the AudioVisualizer component
    encoder,           \* the FFmpeg-based VideoProcessor and the Home that renders it
    upload,            \* the express server of POST /upload
    page               \* the legacy page script

inputVars == <<audioAsset, imageAsset, exportSettings>>
previewVars == <<isPreviewing, visualizerSettings, restartTimer, proc>>
paintVars == <<bar, fill, canvas>>
partVars  == <<legacy, visualizer, encoder, upload, page>>
homeVars  == <<audioFile, imageFile, isProcessing, exportProgress,
               exportError, exportedVideoUrl>>
\* the page with its exporter and its settings-aware preview
restVars  == <<inputVars, paintVars, homeVars, previewVars, run, mounted,
               nRuns, reloads>>
\* all but the earlier VideoProcessor
notLegacy == <<restVars, visualizer, encoder, upload, page>>
\* all but the AudioVisualizer
notVisualizer == <<restVars, legacy, encoder, upload, page>>
\* all but the FFmpeg-based VideoProcessor
notEncoder == <<restVars, legacy, visualizer, upload, page>>
\* all but the upload server
notUpload == <<restVars, legacy, visualizer, encoder, page>>
\* all but the legacy page script
notPage == <<restVars, legacy, visualizer, encoder, upload>>
vars      == <<audioAsset, imageAsset, exportSettings, audioFile, imageFile,
               isProcessing, exportProgress, exportError, exportedVideoUrl,
               run, mounted, nRuns, reloads,
               isPreviewing, visualizerSettings, restartTimer, proc,
               bar, fill, canvas, legacy, visualizer, encoder,
               upload, page>>

---------------------------------------------------------------------------
(* Bounds of the model *)
MaxRuns    == 2     \* exporter instances in one behaviour
MaxReloads == 1     \* page teardowns in one behaviour
MaxDur     == 3     \* longest short audio, in 1/DurDen seconds
DurDen     == 60    \* resolution of audio durations: ticks per second
MaxSetups  == 3     \* runs of the VideoProcessor effect in one behaviour
MaxSettings == 2    \* changes of the visualizer settings in one behaviour
MaxLag     == 1     \* frame periods a run may fall behind its playing source

\* a five second track, the scenario of the specification (150 frames)
LongDur == 5 * DurDen

FpsChoices == {30, 60}
RunIds     == 1..MaxRuns
SetupIds   == 1..MaxSetups

\* the audio files tried: a corrupt one, and decodable ones of each duration
AudioAssets(durs) ==
    {[dur |-> d, decodable |-> TRUE] : d \in durs}
        \cup {[dur |-> 0, decodable |-> FALSE]}

---------------------------------------------------------------------------
(* Program constants *)
FPS           == 30    \* const fps = 30 in captureFrames
ProgressSpan  == 70    \* (frame / totalFrames) * 70
ProgressBase  == 20    \* ... + 20
PadWidth      == 6     \* padStart(6, '0')
ByteMax       == 255   \* largest value of a Uint8Array bin; maxBarHeight / 255
CanvasHeight  == 720   \* canvas.height; 720 * 0.3
BarHeightMin  == 1     \* Bar Height slider min="0.1", in steps
BarHeightMax  == 20    \* Bar Height slider max="2", in steps
BarHeightDen  == 10    \* Bar Height slider step="0.1": steps per unit
BarSpacingMax == 10    \* Bar Spacing slider max="10" (min="0")
TotalWidth    == 1280  \* const totalWidth = 1280; clearRect / drawImage width
FftSize       == 256   \* analyser.fftSize

---------------------------------------------------------------------------
(* Pure functions *)

\* Math.ceil(a / b) for a >= 0, b > 0
CeilDiv(a, b) == (a + b - 1) \div b

\* Math.floor in the place of Math.round
Round_floor(a, b) == a \div b

\* Math.round(a / b) for a >= 0, b > 0: halves round up
Round(a, b) == (2 * a + b) \div (2 * b)

\* totalFrames.current = Math.ceil(duration * fps), duration = dur / DurDen
TotalFramesOf(dur) == CeilDiv(dur * FPS, DurDen)

\* the percentage of frames done, without the reserved ranges
FrameProgress_percent(frame, total) == Round(frame * 100, total)

\* Math.round((frame / totalFrames.current) * 70) + 20
FrameProgress(frame, total) == Round(frame * ProgressSpan, total) + ProgressBase

Digit(d) == <<"0", "1", "2", "3", "4", "5", "6", "7", "8", "9">>[d + 1]

\* frame.toString(): the decimal digits of n, most significant first
RECURSIVE ToDigits(_)
ToDigits(n) == IF n < 10 THEN <<Digit(n)>>
               ELSE ToDigits(n \div 10) \o <<Digit(n % 10)>>

\* String.prototype.padStart
PadStart(s, width, ch) ==
    IF Len(s) >= width THEN s
    ELSE [i \in 1..(width - Len(s)) |-> ch] \o s

\* `frame${frame.toString().padStart(6, '0')}.jpg`
FrameFile(frame) == <<"frame">> \o PadStart(ToDigits(frame), PadWidth, "0") \o <<".jpg">>

\* the audio input the encoder command names
InputAudio == <<"input.mp3">>

---------------------------------------------------------------------------
(* One VideoExporter instance *)

NoRun ==
    [ pc            |-> "none",     \* await the run is suspended at
      outcome       |-> "none",     \* "completed" | "failed" once a callback ended it
      ffmpegRef     |-> FALSE,      \* ffmpegRef.current is set
      audioCtx      |-> "null",     \* audioContextRef.current: null | running | closed
      closeCalls    |-> 0,          \* calls of audioContext.close()
      fps           |-> 0,          \* exportSettings.fps captured by the closures
      format        |-> "none",     \* exportSettings.format captured by the closures
      quality       |-> "none",     \* exportSettings.quality captured by the closures
      settings      |-> 0,          \* the settings prop captured by the closures
      paintedWith   |-> {},         \* settings the frames were painted with
      lateFrames    |-> FALSE,      \* a frame was painted after Home's settings changed
      frame         |-> 0,          \* loop variable of captureFrames
      totalFrames   |-> 0,          \* totalFrames.current
      frameCount    |-> 0,          \* frameCount.current
      writes        |-> << >>,      \* names passed to ffmpeg.writeFile, in order
      progressLog   |-> << >>,      \* values passed to onProgress, in order
      loadCalls     |-> 0,          \* ffmpeg.load attempts
      decodeCalls   |-> 0,          \* decodeAudioData attempts
      execCalls     |-> 0,          \* ffmpeg.exec invocations
      execFramerate |-> 0,          \* -framerate of the exec invocation
      execWrites    |-> 0,          \* frames written when exec was invoked
      execAudio     |-> FALSE,      \* input.mp3 was in the store when exec was invoked
      execArgs      |-> << >>,      \* the arguments of the exec invocation
      readName      |-> << >>,      \* name passed to ffmpeg.readFile
      mimeType      |-> "none",     \* type of the Blob handed to onComplete
      completeCalls |-> 0,          \* onComplete calls
      errorCalls    |-> 0,          \* onError calls
      errorMsg      |-> "null",     \* last message passed to onError
      unmounted     |-> FALSE,      \* the effect cleanup has run
      tornDownIn    |-> "none",     \* phase the cleanup found the run in
      cancelLimit   |-> 0,          \* torn down in Rendering: the frames written
                                    \* once the frame then in progress is finished
      failedAt      |-> "none",     \* await that rejected, when onError was called
      errorCtx      |-> "none",     \* audioContextRef.current when onError was called
      playhead      |-> 0,          \* time since source.start(), in frame periods 1/fps
      sampled       |-> << >> ]     \* playhead at each getByteFrequencyData, in order

\* the effect cleanup: if (audioContextRef.current) audioContextRef.current.close()
Cleanup(rec) ==
    [rec EXCEPT !.audioCtx      = IF @ = "null" THEN "null" ELSE "closed",
                !.closeCalls    = IF rec.audioCtx = "null" THEN @ ELSE @ + 1,
                !.unmounted     = TRUE,
                !.tornDownIn    = IF rec.pc \in {"writeWait", "frameDelay"}
                                  THEN "Rendering" ELSE "other",
                !.cancelLimit   = IF rec.pc = "writeWait" THEN Len(rec.writes) + 1
                                  ELSE IF rec.pc = "frameDelay" THEN Len(rec.writes)
                                  ELSE 0]

\* onProgress(v)
Report(rec, v) == [rec EXCEPT !.progressLog = Append(@, v)]

\* onError(msg): the run ends Failed
Fail(rec, msg) ==
    [rec EXCEPT !.pc = "done", !.outcome = "failed",
                !.errorCalls = @ + 1, !.errorMsg = msg,
                !.failedAt = rec.pc, !.errorCtx = rec.audioCtx]

---------------------------------------------------------------------------
(* One VideoProcessor: the live preview.  setup[g] is the closure of the    *)
(* g-th run of its effect; the remaining fields are the refs of the        *)
(* instance and its audio element.                                         *)

NoSetup ==
    [ pc         |-> "none",    \* "imgWait" | "armed" | "failed" | "returned"
      isMounted  |-> FALSE,     \* let isMounted of the closure
      settings   |-> 0,         \* the settings prop the closure captured
      endedBy    |-> "none",    \* what ran the cleanup of the closure
      drew       |-> FALSE,     \* the closure started a draw loop
      actedAfter |-> FALSE ]    \* code of the closure acted after its cleanup

NoProcessor ==
    [ inst       |-> FALSE,     \* a VideoProcessor is mounted
      nSetups    |-> 0,         \* effect runs so far
      current    |-> 0,         \* closure of the latest effect run
      setup      |-> [g \in SetupIds |-> NoSetup],
      src        |-> FALSE,     \* audioRef.current.src is the audio file
      handlers   |-> 0,         \* closure whose oncanplaythrough / onplay are installed
      playQueued |-> FALSE,     \* a play event is queued on the audio element
      playing    |-> FALSE,     \* the audio element is not paused
      audioCtx   |-> "null",    \* audioContextRef.current: null | running
      ctxOpen    |-> 0,         \* AudioContexts created and not closed
      animation  |-> 0,         \* closure whose draw is scheduled (animationRef.current)
      pending    |-> 0,         \* requested frames of draw neither run nor cancelled
      drawnWith  |-> 0,         \* settings the last draw tick painted with
      ticks      |-> 0,         \* draw ticks of the current loop, saturating at 1
      strayPlay  |-> 0,         \* closure whose onplay waits on a detached audio element
      strayLoop  |-> 0,         \* closure whose draw loop runs without an owner
      error      |-> FALSE ]    \* the error state of the component

\* cleanup(): with a live audio element it is paused and src = '' runs the
\* load algorithm, which drops the element's queued events; the context is
\* closed and the frame request cancelled
PvCleanup(p, refs) ==
    [p EXCEPT !.src        = IF refs THEN FALSE ELSE @,
              !.playQueued = IF refs THEN FALSE ELSE @,
              !.playing    = IF refs THEN FALSE ELSE @,
              !.audioCtx   = "null",
              !.ctxOpen    = IF p.audioCtx = "null" THEN @ ELSE @ - 1,
              !.animation  = 0,
              !.pending    = IF p.animation = 0 THEN @ ELSE @ - 1,
              !.ticks      = 0]

\* the cleanup function the effect returns: isMounted = false; cleanup()
PvEffectCleanup(p, refs, cause) ==
    [PvCleanup(p, refs) EXCEPT
        !.setup[p.current].isMounted = FALSE,
        !.setup[p.current].endedBy   = cause]

\* the effect body: cleanup(); setupVisualizer() up to the await of the image
PvStartSetup(p, settings) ==
    [PvCleanup(p, TRUE) EXCEPT
        !.nSetups = p.nSetups + 1,
        !.current = p.nSetups + 1,
        !.setup[p.nSetups + 1] =
            [NoSetup EXCEPT !.pc = "imgWait", !.isMounted = TRUE,
                            !.settings = settings],
        !.error = FALSE]

\* a dependency of the effect changed: cleanup of the old closure, new effect
PvRerun(p, settings, cause) ==
    PvStartSetup(PvEffectCleanup(p, TRUE, cause), settings)

\* React mounts a VideoProcessor: fresh refs, fresh audio element
PvMount(p, settings) ==
    PvStartSetup([p EXCEPT !.inst = TRUE, !.src = FALSE, !.handlers = 0,
                           !.playQueued = FALSE, !.playing = FALSE,
                           !.error = FALSE], settings)

\* React unmounts it: the DOM refs are detached before the effect cleanup
\* runs, so the audio element keeps its handlers and its queued events; once
\* out of the document it is paused
PvUnmount(p, cause) ==
    [PvEffectCleanup(p, FALSE, cause) EXCEPT
        !.inst       = FALSE,
        !.strayPlay  = IF p.playQueued THEN p.handlers ELSE @,
        !.playQueued = FALSE,
        !.playing    = FALSE,
        !.src        = FALSE,
        !.handlers   = 0]

---------------------------------------------------------------------------
(* Colour of a bar.  Heights, positions and channels are exact fractions    *)
(* [n, d]; a colour keeps the numerators of its channels over den, and of   *)
(* its alpha over aden.                                                     *)

ColorSchemes == {"greenRed", "bluePurple", "rainbow", "purpleGold",
                 "oceanBlue", "sunset", "neon", "white"}

\* the bars tried: every scheme, every stop of the Bar Height slider, every
\* value of a frequency bin
Bars == [colorScheme : ColorSchemes,
         barHeight   : BarHeightMin..BarHeightMax,
         value       : 0..ByteMax]

\* the default settings of Home, a silent bin
DefaultBar == [colorScheme |-> "greenRed", barHeight |-> 7, value |-> 0]

\* maxBarHeight = 720 * 0.3
MaxBarHeight == (CanvasHeight * 3) \div 10

\* barHeight = (dataArray[i] * settings.barHeight) * (maxBarHeight / 255)
BarHeightPx(value, barHeight) ==
    [n |-> value * barHeight * MaxBarHeight, d |-> BarHeightDen * ByteMax]

\* position = height / maxHeight
PositionOf(height, maxHeight) == [n |-> height.n, d |-> height.d * maxHeight]

Rgb(r, g, b, d) ==
    [fn |-> "rgb", r |-> r, g |-> g, b |-> b, den |-> d, a |-> 1, aden |-> 1]

Rgba(r, g, b, d, a, ad) ==
    [fn |-> "rgba", r |-> r, g |-> g, b |-> b, den |-> d, a |-> a, aden |-> ad]

Hsl(h, d) == [fn |-> "hsl", h |-> h, den |-> d, s |-> 100, l |-> 50]

\* the export's law with the green of oceanBlue rising instead of falling
ExportGetColorForScheme_oceanUp(scheme, height, maxHeight) ==
    LET p == PositionOf(height, maxHeight)
        n == p.n
        d == p.d
    IN  CASE scheme = "greenRed"   -> Rgb(255 * n, 255 * (d - n), 0, d)
          [] scheme = "bluePurple" -> Rgb(255 * n, 100 * d + 155 * (d - n), 255 * d, d)
          [] scheme = "rainbow"    -> Hsl(240 * (d - n), d)
          [] scheme = "purpleGold" -> Rgb(147 * d + 108 * n, 51 * d + 191 * n,
                                          234 * d - 198 * n, d)
          [] scheme = "oceanBlue"  -> Rgb(14 * d + 59 * n, 165 * d + 35 * n,
                                          233 * d + 13 * n, d)
          [] scheme = "sunset"     -> Rgb(249 * d - 13 * n, 115 * d - 43 * n,
                                          22 * d + 131 * n, d)
          [] scheme = "neon"       -> Rgb(34 * d - 14 * n, 197 * d - 13 * n,
                                          94 * d + 72 * n, d)
          [] scheme = "white"      -> Rgba(255 * d, 255 * d, 255 * d, d,
                                           3 * d + 7 * n, 10 * d)

\* getColorForScheme of captureFrames (export)
ExportGetColorForScheme(scheme, height, maxHeight) ==
    LET p == PositionOf(height, maxHeight)
        n == p.n
        d == p.d
    IN  CASE scheme = "greenRed"   -> Rgb(255 * n, 255 * (d - n), 0, d)
          [] scheme = "bluePurple" -> Rgb(255 * n, 100 * d + 155 * (d - n), 255 * d, d)
          [] scheme = "rainbow"    -> Hsl(240 * (d - n), d)
          [] scheme = "purpleGold" -> Rgb(147 * d + 108 * n, 51 * d + 191 * n,
                                          234 * d - 198 * n, d)
          [] scheme = "oceanBlue"  -> Rgb(14 * d + 59 * n, 165 * d + (-35) * n,
                                          233 * d + 13 * n, d)
          [] scheme = "sunset"     -> Rgb(249 * d - 13 * n, 115 * d - 43 * n,
                                          22 * d + 131 * n, d)
          [] scheme = "neon"       -> Rgb(34 * d + (-14) * n, 197 * d + (-13) * n,
                                          94 * d + 72 * n, d)
          [] scheme = "white"      -> Rgba(255 * d, 255 * d, 255 * d, d,
                                           3 * d + 7 * n, 10 * d)

\* getColorForScheme of setupVisualizer (preview)
PreviewGetColorForScheme(scheme, height, maxHeight) ==
    LET p == PositionOf(height, maxHeight)
        n == p.n
        d == p.d
    IN  CASE scheme = "greenRed"   -> Rgb(255 * n, 255 * (d - n), 0, d)
          [] scheme = "bluePurple" -> Rgb(255 * n, 100 * d + 155 * (d - n), 255 * d, d)
          [] scheme = "rainbow"    -> Hsl(240 * (d - n), d)
          [] scheme = "purpleGold" -> Rgb(147 * d + 108 * n, 51 * d + 191 * n,
                                          234 * d - 198 * n, d)
          [] scheme = "oceanBlue"  -> Rgb(14 * d + 59 * n, 165 * d + (-35) * n,
                                          233 * d + 13 * n, d)
          [] scheme = "sunset"     -> Rgb(249 * d - 13 * n, 115 * d - 43 * n,
                                          22 * d + 131 * n, d)
          [] scheme = "neon"       -> Rgb(34 * d + (-14) * n, 197 * d + (-13) * n,
                                          94 * d + 72 * n, d)
          [] scheme = "white"      -> Rgba(255 * d, 255 * d, 255 * d, d,
                                           3 * d + 7 * n, 10 * d)

NoFill ==
    [ painted  |-> FALSE,
      position |-> [n |-> 0, d |-> 1],   \* height / maxHeight of the bar
      export   |-> Rgb(0, 0, 0, 1),      \* color of captureFrames
      preview  |-> Rgb(0, 0, 0, 1) ]     \* color of draw

\* one pass of the bar loop, in captureFrames and in draw: the height of
\* the bar and its colour
PaintBar ==
    /\ ~fill.painted
    /\ LET height == BarHeightPx(bar.value, bar.barHeight)
       IN fill' = [ painted  |-> TRUE,
                    position |-> PositionOf(height, MaxBarHeight),
                    export   |-> ExportGetColorForScheme(bar.colorScheme, height,
                                                         MaxBarHeight),
                    preview  |-> PreviewGetColorForScheme(bar.colorScheme, height,
                                                          MaxBarHeight) ]
    /\ UNCHANGED <<inputVars, homeVars, previewVars, run, mounted, nRuns,
                   reloads, bar, canvas, partVars>>

---------------------------------------------------------------------------
(* Composition of a frame: the buffer, the background and the row of bars.  *)
(* Lengths are exact fractions [n, d] where the code divides.               *)

Shapes    == {"rectangle", "rounded", "pill", "triangle"}
Positions == {"bottom", "top"}

\* the settings tried for the layout: every stop of the Bar Spacing slider,
\* both anchors, every shape, a silent, a middle and a full bin
LayoutBars == [colorScheme : {"greenRed"},
               barHeight   : {7, BarHeightMax},
               value       : {0, 128, ByteMax},
               barSpacing  : 0..BarSpacingMax,
               position    : Positions,
               shape       : Shapes,
               glow        : BOOLEAN]

\* the same over every colour scheme, for the comparison of the two renderers
CompareBars == [colorScheme : ColorSchemes,
                barHeight   : {7, BarHeightMax},
                value       : {0, 128, ByteMax},
                barSpacing  : 0..BarSpacingMax,
                position    : Positions,
                shape       : Shapes,
                glow        : BOOLEAN]

\* if (settings.glow) ctx.shadowBlur = 15 else ctx.shadowBlur = 0
ShadowBlurOf(glow) == IF glow THEN 15 ELSE 0

\* setupCanvas: canvas.width, canvas.height
CanvasWidthOf(es)  == IF es.resolution = "1080p" THEN 1920 ELSE 1280
CanvasHeightOf(es) == IF es.resolution = "1080p" THEN 1080 ELSE 720

\* totalBars = bufferLength = analyser.frequencyBinCount
TotalBars == FftSize \div 2

\* barWidth = (totalWidth - (totalBars - 1) * settings.barSpacing) / totalBars
BarWidthOf(totalWidth, spacing) ==
    [n |-> totalWidth - (TotalBars - 1) * spacing, d |-> TotalBars]

\* the left edge of bar i in captureFrames: i * barWidth
ExportBarX(i, barWidth, spacing) == [n |-> i * barWidth.n, d |-> barWidth.d]

\* the left edge of bar i in draw: x starts at 0, x += barWidth + barSpacing
PreviewBarX(i, barWidth, spacing) ==
    [n |-> i * (barWidth.n + spacing * barWidth.d), d |-> barWidth.d]

\* the vertical extent of a bar drawn from the edge at `floor` (the literal
\* 720 of captureFrames, canvas.height of draw).  fillRect / roundRect cover
\* y .. y + barHeight with y = floor - barHeight or 0; the triangle has its
\* base on floor or 0 and its apex barHeight away.
BarExtent(shape, position, height, floor) ==
    LET y == IF position = "bottom"
             THEN [n |-> floor * height.d - height.n, d |-> height.d]
             ELSE [n |-> 0, d |-> height.d]
    IN  IF shape = "triangle"
        THEN IF position = "bottom"
             THEN [upper |-> [n |-> floor * height.d - height.n, d |-> height.d],
                   lower |-> [n |-> floor * height.d, d |-> height.d]]
             ELSE [upper |-> [n |-> 0, d |-> height.d],
                   lower |-> height]
        ELSE [upper |-> y, lower |-> [n |-> y.n + height.n, d |-> height.d]]

NoCanvas ==
    [ drawn     |-> FALSE,
      width     |-> 0,  height |-> 0,     \* canvas.width, canvas.height of the export
      clearW    |-> 0,  clearH |-> 0,     \* area of clearRect
      imageW    |-> 0,  imageH |-> 0,     \* area the image is drawn to
      rowWidth  |-> 0,                    \* totalWidth
      maxBarHeight |-> 0,
      barWidth  |-> [n |-> 0, d |-> 1],
      xs        |-> << >>,                \* left edges of the bars of the export
      extent    |-> [upper |-> [n |-> 0, d |-> 1], lower |-> [n |-> 0, d |-> 1]],
      barHeightPx |-> [n |-> 0, d |-> 1],
      color     |-> Rgb(0, 0, 0, 1),      \* fillStyle and shadowColor of the export
      shadowBlur |-> 0,
      previewColor |-> Rgb(0, 0, 0, 1),   \* fillStyle and shadowColor of the preview
      previewShadowBlur |-> 0,
      previewBarWidth |-> [n |-> 0, d |-> 1],
      previewWidth |-> 0,                 \* canvas.width of the preview
      previewXs |-> << >>,                \* left edges of the bars of the preview
      previewExtent |-> [upper |-> [n |-> 0, d |-> 1], lower |-> [n |-> 0, d |-> 1]] ]

\* one frame of captureFrames on the canvas of setupCanvas, and one tick of
\* draw on the preview canvas, for the settings and the bin of `bar`
DrawFrame ==
    /\ ~canvas.drawn
    /\ LET height   == BarHeightPx(bar.value, bar.barHeight)
           barWidth == BarWidthOf(TotalWidth, bar.barSpacing)
       IN canvas' =
            [ drawn     |-> TRUE,
              width     |-> CanvasWidthOf(exportSettings),
              height    |-> CanvasHeightOf(exportSettings),
              clearW    |-> TotalWidth,  clearH |-> CanvasHeight,
              imageW    |-> TotalWidth,  imageH |-> CanvasHeight,
              rowWidth  |-> TotalWidth,
              maxBarHeight |-> MaxBarHeight,
              barWidth  |-> barWidth,
              xs        |-> [i \in 1..TotalBars |->
                               ExportBarX(i - 1, barWidth, bar.barSpacing)],
              extent    |-> BarExtent(bar.shape, bar.position, height, CanvasHeight),
              barHeightPx |-> height,
              color     |-> ExportGetColorForScheme(bar.colorScheme, height,
                                                    MaxBarHeight),
              shadowBlur |-> ShadowBlurOf(bar.glow),
              previewColor |-> PreviewGetColorForScheme(bar.colorScheme, height,
                                                        MaxBarHeight),
              previewShadowBlur |-> ShadowBlurOf(bar.glow),
              previewBarWidth |-> barWidth,
              previewWidth |-> TotalWidth,
              previewXs |-> [i \in 1..TotalBars |->
                               PreviewBarX(i - 1, barWidth, bar.barSpacing)],
              previewExtent |-> BarExtent(bar.shape, bar.position, height,
                                          CanvasHeight) ]
    /\ UNCHANGED <<inputVars, homeVars, previewVars, run, mounted, nRuns,
                   reloads, bar, fill, partVars>>

---------------------------------------------------------------------------
(* The earlier VideoProcessor: the preview without settings.  Its cleanup   *)
(* closes the context and cancels the frame but resets neither ref, and its *)
(* setup has no isMounted test.                                             *)

NoLegacy ==
    [ inst       |-> FALSE,     \* the component is mounted
      nSetups    |-> 0,         \* effect runs so far
      pc         |-> [g \in SetupIds |-> "none"],
                                \* per effect run: "imgWait" | "armed" | "failed"
      src        |-> FALSE,     \* audioRef.current.src is an audio file
      handlers   |-> 0,         \* closure whose oncanplaythrough / onplay are installed
      playQueued |-> FALSE,     \* a play event is queued on the audio element
      playing    |-> FALSE,     \* the audio element is not paused
      audioCtx   |-> "null",    \* audioContextRef.current: null | running | closed
      closeCalls |-> 0,         \* close() calls, saturating at 2
      loop       |-> FALSE,     \* a requested frame of draw is pending
      ticks      |-> 0,         \* draw ticks of the current loop, saturating at 1
      played     |-> FALSE,     \* a play event was delivered since the last effect run
      error      |-> FALSE ]    \* the error state of the component

\* cleanup(): close() on whatever audioContextRef.current holds,
\* cancelAnimationFrame; neither ref is set to null
LgCleanup(p) ==
    [p EXCEPT !.audioCtx   = IF @ = "null" THEN "null" ELSE "closed",
              !.closeCalls = IF p.audioCtx = "null" \/ @ = 2 THEN @ ELSE @ + 1,
              !.loop       = FALSE,
              !.ticks      = 0]

\* the effect body: setupVisualizer() up to the await of the image
LgStartSetup(p) ==
    [p EXCEPT !.nSetups = @ + 1,
              !.pc[p.nSetups + 1] = "imgWait",
              !.played = FALSE,
              !.error = FALSE]

\* Home renders the VideoProcessor once Preview was clicked
LgMount ==
    /\ ~legacy.inst /\ legacy.nSetups = 0
    /\ legacy' = LgStartSetup([legacy EXCEPT !.inst = TRUE])
    /\ UNCHANGED notLegacy

\* audioFile or imageFile changed: the cleanup the effect returned, then the
\* effect again, in the same instance
LgRerun ==
    /\ legacy.inst /\ legacy.nSetups < MaxSetups
    /\ legacy' = LgStartSetup(LgCleanup(legacy))
    /\ UNCHANGED notLegacy

\* img.onload of closure g, stale or not: imageRef, the audio source (which
\* resets the element) and the handlers are set
LgImgLoaded(g) ==
    /\ legacy.pc[g] = "imgWait"
    /\ imageAsset.loadable
    /\ legacy' = [legacy EXCEPT !.pc[g] = "armed",
                                !.src = TRUE, !.handlers = g,
                                !.playQueued = FALSE, !.playing = FALSE]
    /\ UNCHANGED notLegacy

\* img.onerror of closure g: the catch, setError and cleanup()
LgImgError(g) ==
    /\ legacy.pc[g] = "imgWait"
    /\ ~imageAsset.loadable
    /\ legacy' = [LgCleanup(legacy) EXCEPT !.pc[g] = "failed", !.error = TRUE]
    /\ UNCHANGED notLegacy

\* oncanplaythrough: audioRef.current?.play(), which queues the play event
LgCanPlayThrough ==
    /\ legacy.inst /\ legacy.src /\ legacy.handlers # 0
    /\ audioAsset.decodable
    /\ ~legacy.playing /\ ~legacy.playQueued
    /\ legacy' = [legacy EXCEPT !.playQueued = TRUE, !.playing = TRUE]
    /\ UNCHANGED notLegacy

\* the play event: if (!audioContextRef.current) { new AudioContext ...
\* draw() }
LgOnPlay ==
    /\ legacy.inst /\ legacy.playQueued
    /\ legacy' = IF legacy.audioCtx = "null"
                 THEN [legacy EXCEPT !.playQueued = FALSE, !.played = TRUE,
                                     !.audioCtx = "running", !.loop = TRUE]
                 ELSE [legacy EXCEPT !.playQueued = FALSE, !.played = TRUE]
    /\ UNCHANGED notLegacy

\* the user pauses the audio with its controls
LgPause ==
    /\ legacy.inst /\ legacy.src /\ legacy.playing /\ ~legacy.playQueued
    /\ legacy' = [legacy EXCEPT !.playing = FALSE]
    /\ UNCHANGED notLegacy

\* requestAnimationFrame calls draw, which requests the next frame
LgDrawTick ==
    /\ legacy.loop /\ legacy.ticks = 0
    /\ legacy' = [legacy EXCEPT !.ticks = 1]
    /\ UNCHANGED notLegacy

LegacyNext ==
    \/ LgMount \/ LgRerun
    \/ \E g \in SetupIds : LgImgLoaded(g) \/ LgImgError(g)
    \/ LgCanPlayThrough \/ LgOnPlay \/ LgPause
    \/ LgDrawTick

---------------------------------------------------------------------------
(* The AudioVisualizer.  Each run of its effect makes a context and, once   *)
(* the audio is decoded, a source and a render loop; the refs are shared by *)
(* all runs and never reset.                                                *)

NoVisualizer ==
    [ inst      |-> FALSE,      \* the component is mounted (canvasRef.current is set)
      nSetups   |-> 0,          \* effect runs so far
      pc        |-> [g \in SetupIds |-> "none"],
                                \* per effect run: "bufWait" | "decodeWait" | "done" | "failed"
      ctx       |-> [g \in SetupIds |-> "none"],
                                \* the context run g created: "open" | "closed"
      ref       |-> 0,          \* effect run whose context audioContextRef.current holds
      sourceRef |-> FALSE,      \* sourceRef.current holds a source (none is ever started)
      loops     |-> 0,          \* renderFrame loops requesting frames
      ticks     |-> 0,          \* frames rendered, saturating at 1
      cleanups  |-> 0,          \* effect cleanups that ran
      thrown    |-> 0 ]         \* effect cleanups that stop() ended with InvalidStateError

\* the cleanup the effect returns.  sourceRef.current.stop() on a source that
\* was never started throws InvalidStateError, which ends the cleanup before
\* close()
AvCleanup(v) ==
    IF v.sourceRef
    THEN [v EXCEPT !.cleanups = @ + 1, !.thrown = @ + 1]
    ELSE [v EXCEPT !.cleanups = @ + 1,
                   !.ctx = IF v.ref = 0 THEN @
                           ELSE [@ EXCEPT ![v.ref] = "closed"]]

\* the effect body: setupAudioContext() up to its first await
AvStartSetup(v) ==
    [v EXCEPT !.nSetups = @ + 1,
              !.pc[v.nSetups + 1] = "bufWait",
              !.ctx[v.nSetups + 1] = "open",
              !.ref = v.nSetups + 1]

\* the component is mounted
AvMount ==
    /\ ~visualizer.inst /\ visualizer.nSetups = 0
    /\ visualizer' = AvStartSetup([visualizer EXCEPT !.inst = TRUE])
    /\ UNCHANGED notVisualizer

\* the audioFile prop changed: cleanup, then the effect again
AvFileChanged ==
    /\ visualizer.inst /\ visualizer.nSetups < MaxSetups
    /\ visualizer' = AvStartSetup(AvCleanup(visualizer))
    /\ UNCHANGED notVisualizer

\* the component is unmounted: canvasRef.current becomes null, then cleanup
AvUnmount ==
    /\ visualizer.inst
    /\ visualizer' = [AvCleanup(visualizer) EXCEPT !.inst = FALSE]
    /\ UNCHANGED notVisualizer

\* audioFile.arrayBuffer() of run g resolved: decodeAudioData is called
AvBufferOk(g) ==
    /\ visualizer.pc[g] = "bufWait"
    /\ visualizer' = [visualizer EXCEPT !.pc[g] = "decodeWait"]
    /\ UNCHANGED notVisualizer

\* decodeAudioData of run g resolved, stale or not: a source is created on
\* whatever context the ref holds, and visualize() starts a loop if the
\* canvas is still there
AvDecodeOk(g) ==
    /\ visualizer.pc[g] = "decodeWait"
    /\ audioAsset.decodable
    /\ visualizer' = [visualizer EXCEPT
                        !.pc[g] = "done",
                        !.sourceRef = TRUE,
                        !.loops = IF visualizer.inst THEN @ + 1 ELSE @]
    /\ UNCHANGED notVisualizer

\* decodeAudioData of run g rejected: the catch logs it
AvDecodeFail(g) ==
    /\ visualizer.pc[g] = "decodeWait"
    /\ ~audioAsset.decodable
    /\ visualizer' = [visualizer EXCEPT !.pc[g] = "failed"]
    /\ UNCHANGED notVisualizer

\* renderFrame: requestAnimationFrame(renderFrame), then one frame; no id
\* is kept and nothing cancels the request
AvRenderTick ==
    /\ visualizer.loops > 0 /\ visualizer.ticks = 0
    /\ visualizer' = [visualizer EXCEPT !.ticks = 1]
    /\ UNCHANGED notVisualizer

VisualizerNext ==
    \/ AvMount \/ AvFileChanged \/ AvUnmount
    \/ \E g \in SetupIds : AvBufferOk(g) \/ AvDecodeOk(g) \/ AvDecodeFail(g)
    \/ AvRenderTick

---------------------------------------------------------------------------
(* The FFmpeg-based VideoProcessor and its Home.  One FFmpeg instance per   *)
(* component; the effect on [ffmpeg, audioFile, imageFile, isProcessing]    *)
(* starts a processVideo at every change and cancels none.                  *)

EncoderFiles == {"audio.mp3", "image.jpg", "output.mp4"}

NoEncoder ==
    [ audioFile    |-> FALSE,   \* Home state: an audio file was dropped
      imageFile    |-> FALSE,   \* Home state: an image file was dropped
      isProcessing |-> FALSE,   \* Home state, never reset
      ffmpeg       |-> "none",  \* "loading" | "ready" (the ffmpeg state) | "failed"
      nRuns        |-> 0,       \* processVideo runs that passed the first test
      pc           |-> [g \in RunIds |-> "none"],
                                \* await run g is suspended at, "done" or "failed"
      store        |-> {},      \* files of the FFmpeg instance
      videoUrl     |-> 0 ]      \* run whose output the video element shows

\* processVideo up to its first await, when it does not return at once
EnStartRun(e) ==
    IF e.audioFile /\ e.imageFile /\ e.ffmpeg = "ready" /\ e.isProcessing
    THEN [e EXCEPT !.nRuns = @ + 1, !.pc[e.nRuns + 1] = "fetchAudio"]
    ELSE e

\* the bound on runs allows the effect to run on e
EnMayRun(e) ==
    e.audioFile /\ e.imageFile /\ e.ffmpeg = "ready" /\ e.isProcessing
        => e.nRuns < MaxRuns

\* the VideoProcessor is mounted when both files are there: load() starts
EnMounted(e, was) ==
    IF e.audioFile /\ e.imageFile /\ ~was /\ e.ffmpeg = "none"
    THEN [e EXCEPT !.ffmpeg = "loading"]
    ELSE e

\* onDropAudio: a new File object, dropzone never disabled
EnDropAudio ==
    /\ LET e == [encoder EXCEPT !.audioFile = TRUE] IN
       /\ EnMayRun(e)
       /\ encoder' = EnStartRun(EnMounted(e, encoder.audioFile /\ encoder.imageFile))
    /\ UNCHANGED notEncoder

\* onDropImage
EnDropImage ==
    /\ LET e == [encoder EXCEPT !.imageFile = TRUE] IN
       /\ EnMayRun(e)
       /\ encoder' = EnStartRun(EnMounted(e, encoder.audioFile /\ encoder.imageFile))
    /\ UNCHANGED notEncoder

\* Create Video (disabled without files or while processing): handleProcess
EnHandleProcess ==
    /\ encoder.audioFile /\ encoder.imageFile /\ ~encoder.isProcessing
    /\ LET e == [encoder EXCEPT !.isProcessing = TRUE] IN
       /\ EnMayRun(e)
       /\ encoder' = EnStartRun(e)
    /\ UNCHANGED notEncoder

\* ffmpeg.load resolved: setFfmpeg, and the effect runs again
EnLoadOk ==
    /\ encoder.ffmpeg = "loading"
    /\ LET e == [encoder EXCEPT !.ffmpeg = "ready"] IN
       /\ EnMayRun(e)
       /\ encoder' = EnStartRun(e)
    /\ UNCHANGED notEncoder

\* ffmpeg.load rejected: nothing catches it, the ffmpeg state stays null
EnLoadFail ==
    /\ encoder.ffmpeg = "loading"
    /\ encoder' = [encoder EXCEPT !.ffmpeg = "failed"]
    /\ UNCHANGED notEncoder

\* run g goes on to `pc` with the store `store`
EnGoto(g, pc, store) ==
    encoder' = [encoder EXCEPT !.pc[g] = pc, !.store = store]

\* one await of processVideo of run g settles; a rejection lands in the catch
EnStep(g) ==
    /\ LET at == encoder.pc[g]
           st == encoder.store
       IN CASE at = "fetchAudio" -> EnGoto(g, "writeAudio", st)
            [] at = "writeAudio" -> EnGoto(g, "fetchImage", st \cup {"audio.mp3"})
            [] at = "fetchImage" -> EnGoto(g, "writeImage", st)
            [] at = "writeImage" -> EnGoto(g, "exec", st \cup {"image.jpg"})
            [] at = "exec" ->
                 IF {"audio.mp3", "image.jpg"} \subseteq st
                 THEN EnGoto(g, "read", st \cup {"output.mp4"})
                 ELSE EnGoto(g, "read", st)
            [] at = "read" ->
                 IF "output.mp4" \in st
                 THEN encoder' = [encoder EXCEPT !.pc[g] = "deleteAudio",
                                                 !.videoUrl = g]
                 ELSE EnGoto(g, "failed", st)
            [] at = "deleteAudio" ->
                 IF "audio.mp3" \in st
                 THEN EnGoto(g, "deleteImage", st \ {"audio.mp3"})
                 ELSE EnGoto(g, "failed", st)
            [] at = "deleteImage" ->
                 IF "image.jpg" \in st
                 THEN EnGoto(g, "deleteOutput", st \ {"image.jpg"})
                 ELSE EnGoto(g, "failed", st)
            [] at = "deleteOutput" ->
                 IF "output.mp4" \in st
                 THEN EnGoto(g, "done", st \ {"output.mp4"})
                 ELSE EnGoto(g, "failed", st)
            [] OTHER -> FALSE
    /\ UNCHANGED notEncoder

\* the encoder rejects the command of run g
EnExecFail(g) ==
    /\ encoder.pc[g] = "exec"
    /\ encoder' = [encoder EXCEPT !.pc[g] = "failed"]
    /\ UNCHANGED notEncoder

EncoderNext ==
    \/ EnDropAudio \/ EnDropImage \/ EnHandleProcess
    \/ EnLoadOk \/ EnLoadFail
    \/ \E g \in RunIds : EnStep(g) \/ EnExecFail(g)

---------------------------------------------------------------------------
(* The express server: POST /upload behind multer's upload.fields.          *)

\* files one request carries in one field, at most
MaxSent     == 2
\* requests the server is sent
MaxRequests == 3
\* maxCount of the fields audio and image
MaxCount    == 1

NoResponse ==
    [ status |-> 0, type |-> "none", success |-> FALSE, error |-> "",
      paths |-> FALSE ]

NoUpload ==
    [ served   |-> 0,           \* requests answered
      stage    |-> "idle",      \* "handler" | "error" | "responded"
      nAudio   |-> 0,           \* files of the request in the field audio
      nImage   |-> 0,           \* files of the request in the field image
      files    |-> "undefined", \* req.files: "undefined" | "object"
      stored   |-> 0,           \* files written to uploads/
      thrown   |-> FALSE,       \* the route handler threw
      res      |-> NoResponse ]

\* upload.fields on a request: not multipart, req.files stays unset; a field
\* over its maxCount, the error goes to next(err) and the stored files are
\* removed; else req.files holds one array per field that came with a file
UploadRequest(multipart, a, i) ==
    /\ upload.stage \in {"idle", "responded"}
    /\ upload.served < MaxRequests
    /\ ~multipart => a = 0 /\ i = 0
    /\ upload' =
         [upload EXCEPT
            !.nAudio = a, !.nImage = i, !.thrown = FALSE, !.res = NoResponse,
            !.files  = IF multipart THEN "object" ELSE "undefined",
            !.stage  = IF a > MaxCount \/ i > MaxCount THEN "error"
                       ELSE "handler",
            !.stored = IF a > MaxCount \/ i > MaxCount THEN @ ELSE @ + a + i]
    /\ UNCHANGED notUpload

\* the route handler
UploadHandler ==
    /\ upload.stage = "handler"
    /\ upload' =
         IF upload.files = "undefined"
         THEN [upload EXCEPT
                 !.stage = "responded", !.served = @ + 1,
                 !.res = [status |-> 400, type |-> "json", success |-> FALSE,
                          error |-> "No files uploaded", paths |-> FALSE]]
         ELSE IF upload.nAudio = 0 \/ upload.nImage = 0
         THEN \* req.files.audio or req.files.image is undefined: [0] throws
              [upload EXCEPT !.stage = "error", !.thrown = TRUE]
         ELSE [upload EXCEPT
                 !.stage = "responded", !.served = @ + 1,
                 !.res = [status |-> 200, type |-> "json", success |-> TRUE,
                          error |-> "", paths |-> TRUE]]
    /\ UNCHANGED notUpload

\* no error middleware is installed: express answers the error itself
UploadError ==
    /\ upload.stage = "error"
    /\ upload' =
         [upload EXCEPT
            !.stage = "responded", !.served = @ + 1,
            !.res = [status |-> 500, type |-> "html", success |-> FALSE,
                     error |-> "", paths |-> FALSE]]
    /\ UNCHANGED notUpload

UploadNext ==
    \/ \E multipart \in BOOLEAN, a, i \in 0..MaxSent :
           UploadRequest(multipart, a, i)
    \/ UploadHandler
    \/ UploadError

---------------------------------------------------------------------------
(* The legacy page script: the upload form, the loading indicator and the   *)
(* audio graph behind the play event of the audio element.                  *)

\* submits of the upload form
MaxSubmits == 2
\* frames the draw loops are followed for
MaxFrames  == 2

SubmitIds == 1..MaxSubmits

NoPage ==
    [ display      |-> "none",  \* loadingContainer.style.display
      width        |-> 0,       \* loadingProgress.style.width, in percent
      nSubmits     |-> 0,
      pc           |-> [g \in SubmitIds |-> "none"],
                                \* where submit g is: "fetch", "jsonOk" |
                                \* "jsonError" | "jsonInvalid" (response.json
                                \* pending on such a body), "timer1",
                                \* "timer2", "done", "failed"
      src          |-> FALSE,   \* audioPlayer.src and backgroundImage.src set
      listener     |-> FALSE,   \* initializeAudio listens to play
      audioContext |-> FALSE,
      inits        |-> 0,       \* audio graphs built
      loops        |-> 0,       \* draw loops started
      plays        |-> 0,       \* play events, counted to 2
      frames       |-> 0 ]

\* the catch of the submit handler for submit g
PageCatch(g) ==
    page' = [page EXCEPT !.display = "none", !.width = 0, !.pc[g] = "failed"]

\* the form is submitted: the handler up to await fetch
PageSubmit ==
    /\ page.nSubmits < MaxSubmits
    /\ page' = [page EXCEPT !.display = "flex", !.width = 60,
                            !.nSubmits = @ + 1,
                            !.pc[page.nSubmits + 1] = "fetch"]
    /\ UNCHANGED notPage

\* fetch of submit g settles: rejected, or resolved with a response whose
\* body is the success answer, a JSON error or not JSON
PageFetchSettled(g, outcome) ==
    /\ page.pc[g] = "fetch"
    /\ IF outcome = "rejected"
       THEN PageCatch(g)
       ELSE page' = [page EXCEPT !.width = 90, !.pc[g] = outcome]
    /\ UNCHANGED notPage

\* response.json() of submit g settles, and the handler runs to its end
PageJsonSettled(g) ==
    /\ page.pc[g] \in {"jsonOk", "jsonError", "jsonInvalid"}
    /\ CASE page.pc[g] = "jsonInvalid" -> PageCatch(g)
         [] page.pc[g] = "jsonOk" ->
              page' = [page EXCEPT !.src = TRUE, !.listener = TRUE,
                                   !.pc[g] = "timer1"]
         [] OTHER -> page' = [page EXCEPT !.pc[g] = "timer1"]
    /\ UNCHANGED notPage

\* the outer timeout of submit g
PageTimer1(g) ==
    /\ page.pc[g] = "timer1"
    /\ page' = [page EXCEPT !.width = 100, !.pc[g] = "timer2"]
    /\ UNCHANGED notPage

\* the inner timeout of submit g
PageTimer2(g) ==
    /\ page.pc[g] = "timer2"
    /\ page' = [page EXCEPT !.display = "none", !.width = 0, !.pc[g] = "done"]
    /\ UNCHANGED notPage

\* initializeAudio without its test of audioContext
PagePlay_unguarded ==
    /\ page' = [page EXCEPT
                  !.plays = IF @ < 2 THEN @ + 1 ELSE @,
                  !.audioContext = IF page.listener THEN TRUE ELSE @,
                  !.inits = IF page.listener /\ @ < 2 THEN @ + 1 ELSE @,
                  !.loops = IF page.listener /\ @ < 2 THEN @ + 1 ELSE @]
    /\ UNCHANGED notPage

\* a play event of the audio element: initializeAudio, where it listens
PagePlay ==
    /\ page' = [page EXCEPT
                  !.plays = IF @ < 2 THEN @ + 1 ELSE @,
                  !.audioContext = IF page.listener THEN TRUE ELSE @,
                  !.inits = IF page.listener /\ ~page.audioContext
                            THEN @ + 1 ELSE @,
                  !.loops = IF page.listener /\ ~page.audioContext
                            THEN @ + 1 ELSE @]
    /\ UNCHANGED notPage

\* an animation frame: every draw loop draws and requests the next
PageDraw ==
    /\ page.loops > 0
    /\ page.frames < MaxFrames
    /\ page' = [page EXCEPT !.frames = @ + 1]
    /\ UNCHANGED notPage

\* what the browser does by itself: settle the requests, fire the timers
PageProgress ==
    \E g \in SubmitIds :
        \/ \E outcome \in {"rejected", "jsonOk", "jsonError", "jsonInvalid"} :
               PageFetchSettled(g, outcome)
        \/ PageJsonSettled(g)
        \/ PageTimer1(g)
        \/ PageTimer2(g)

PageNext ==
    \/ PageSubmit
    \/ PageProgress
    \/ PagePlay
    \/ PageDraw

\* the export settings of the runs: the frame rates, at 720p, mp4, high
DefaultExports == [fps : FpsChoices, resolution : {"720p"},
                   format : {"mp4"}, quality : {"high"}]

\* every export setting the exporter tells apart, at its own frame rate
AllExports == [fps : {FPS}, resolution : {"720p", "1080p"},
               format : {"mp4", "webm"}, quality : {"high", "medium", "low"}]

\* the page as first rendered, with an audio file among `audios`, a bar
\* among `bars` to paint and export settings among `exports`
InitAll(audios, bars, exports) ==
    /\ audioAsset \in audios
    /\ imageAsset \in [loadable : BOOLEAN]
    /\ exportSettings \in exports
    /\ audioFile = FALSE
    /\ imageFile = FALSE
    /\ isProcessing = FALSE
    /\ exportProgress = 0
    /\ exportError = "null"
    /\ exportedVideoUrl = 0
    /\ run = [r \in RunIds |-> NoRun]
    /\ mounted = 0
    /\ nRuns = 0
    /\ reloads = 0
    /\ isPreviewing = FALSE
    /\ visualizerSettings = 0
    /\ restartTimer = 0
    /\ proc = NoProcessor
    /\ bar \in bars
    /\ fill = NoFill
    /\ canvas = NoCanvas
    /\ legacy = NoLegacy
    /\ visualizer = NoVisualizer
    /\ encoder = NoEncoder
    /\ upload = NoUpload
    /\ page = NoPage

\* the same at the default export settings
InitOf(audios, bars) == InitAll(audios, bars, DefaultExports)

\* the page as first rendered, for an audio file among `audios`
InitWith(audios) == InitOf(audios, {DefaultBar})

Init == InitWith(AudioAssets(0..MaxDur))

\* the same with the five second track among the audio files
InitLong == InitWith(AudioAssets(0..MaxDur \cup {LongDur}))


---------------------------------------------------------------------------
(* Home page *)

\* a new File object reaches a mounted VideoProcessor as a changed prop: its
\* effect, which depends on audioFile and imageFile, runs again
FileChanged ==
    /\ proc.inst => proc.nSetups < MaxSetups
    /\ proc' = IF proc.inst THEN PvRerun(proc, visualizerSettings, "files")
               ELSE proc
    /\ UNCHANGED <<isPreviewing, visualizerSettings, restartTimer>>

\* onDropAudio: setAudioFile(file) for an accepted audio file
HandleDropAudio ==
    /\ audioFile' = TRUE
    /\ FileChanged
    /\ UNCHANGED <<inputVars, paintVars, partVars, imageFile, isProcessing, exportProgress,
                   exportError, exportedVideoUrl, run, mounted, nRuns, reloads>>

\* onDropAudio with another file than the one held, while no exporter is
\* mounted: the next export reads the new file
HandleDropOtherAudio ==
    /\ mounted = 0
    /\ audioAsset' \in AudioAssets({1}) \ {audioAsset}
    /\ audioFile' = TRUE
    /\ FileChanged
    /\ UNCHANGED <<imageAsset, exportSettings, paintVars, partVars, imageFile,
                   isProcessing, exportProgress, exportError,
                   exportedVideoUrl, run, mounted, nRuns, reloads>>

\* onDropImage: setImageFile(file) for an accepted image file
HandleDropImage ==
    /\ imageFile' = TRUE
    /\ FileChanged
    /\ UNCHANGED <<inputVars, paintVars, partVars, audioFile, isProcessing, exportProgress,
                   exportError, exportedVideoUrl, run, mounted, nRuns, reloads>>

\* The instance React mounts: the effect calls load(), which creates the
\* FFmpeg object and suspends at its first await.
MountExporter(es, settings) ==
    [NoRun EXCEPT !.pc = "loading", !.ffmpegRef = TRUE, !.loadCalls = 1,
                  !.fps = es.fps, !.format = es.format, !.quality = es.quality,
                  !.settings = settings]

\* the Export button left enabled while a run is processing, each click
\* replacing the mounted exporter by a fresh one
HandleExport_enabled ==
    /\ audioFile /\ imageFile
    /\ nRuns < MaxRuns
    /\ isProcessing' = TRUE
    /\ exportError' = "null"
    /\ exportProgress' = 0
    /\ nRuns' = nRuns + 1
    /\ mounted' = nRuns + 1
    /\ run' = [run EXCEPT ![nRuns + 1] = MountExporter(exportSettings, visualizerSettings),
                          ![mounted] = Cleanup(@)]
    /\ UNCHANGED <<inputVars, paintVars, partVars, previewVars, audioFile, imageFile,
                   exportedVideoUrl, reloads>>

\* The Export button (disabled without files or while processing) and
\* handleExport; the render that follows mounts a VideoExporter.
HandleExport ==
    /\ audioFile /\ imageFile /\ ~isProcessing
    /\ nRuns < MaxRuns
    /\ isProcessing' = TRUE
    /\ exportError' = "null"
    /\ exportProgress' = 0
    /\ nRuns' = nRuns + 1
    /\ mounted' = nRuns + 1
    /\ run' = [run EXCEPT ![nRuns + 1] = MountExporter(exportSettings, visualizerSettings)]
    /\ UNCHANGED <<inputVars, paintVars, partVars, previewVars, audioFile, imageFile, exportedVideoUrl, reloads>>

\* The page is torn down and mounted again (navigation away and back): every
\* useState starts over, and a mounted exporter runs its effect cleanup.
PageReload ==
    /\ reloads < MaxReloads
    /\ reloads' = reloads + 1
    /\ audioFile' = FALSE
    /\ imageFile' = FALSE
    /\ isProcessing' = FALSE
    /\ exportProgress' = 0
    /\ exportError' = "null"
    /\ exportedVideoUrl' = 0
    /\ mounted' = 0
    /\ run' = IF mounted = 0 THEN run
              ELSE [run EXCEPT ![mounted] = Cleanup(@)]
    /\ isPreviewing' = FALSE
    /\ visualizerSettings' = 0
    /\ restartTimer' = 0
    /\ proc' = IF proc.inst THEN PvUnmount(proc, "reload") ELSE proc
    /\ UNCHANGED <<inputVars, paintVars, partVars, nRuns>>

\* The Preview button (disabled without files or while processing) and
\* handlePreview: setIsPreviewing(!isPreviewing); the render that follows
\* mounts or unmounts the VideoProcessor.
HandlePreview ==
    /\ audioFile /\ imageFile /\ ~isProcessing
    /\ ~isPreviewing => proc.nSetups < MaxSetups
    /\ isPreviewing' = ~isPreviewing
    /\ proc' = IF isPreviewing THEN PvUnmount(proc, "stop")
               ELSE PvMount(proc, visualizerSettings)
    /\ UNCHANGED <<inputVars, paintVars, partVars, homeVars, run, mounted, nRuns, reloads,
                   visualizerSettings, restartTimer>>

\* A control of the settings panel: setVisualizerSettings(prev => ({...prev, ..})),
\* always a new object.  While previewing, the render hands the new settings
\* to the VideoProcessor, whose effect runs again; then the effect of Home on
\* [visualizerSettings] sets isPreviewing false, which unmounts the
\* VideoProcessor, and arms the 50 ms timer.
SetVisualizerSettings ==
    /\ visualizerSettings < MaxSettings
    /\ isPreviewing => proc.nSetups < MaxSetups
    /\ visualizerSettings' = visualizerSettings + 1
    /\ isPreviewing' = FALSE
    /\ restartTimer' = IF isPreviewing THEN restartTimer + 1 ELSE restartTimer
    /\ proc' = IF isPreviewing
               THEN PvUnmount(PvRerun(proc, visualizerSettings + 1, "settings"),
                              "settings")
               ELSE proc
    /\ UNCHANGED <<inputVars, paintVars, partVars, homeVars, run, mounted, nRuns, reloads>>

\* the 50 ms timer fired: setIsPreviewing(true)
RestartPreview ==
    /\ restartTimer > 0
    /\ ~isPreviewing => proc.nSetups < MaxSetups
    /\ restartTimer' = restartTimer - 1
    /\ isPreviewing' = TRUE
    /\ proc' = IF isPreviewing THEN proc ELSE PvMount(proc, visualizerSettings)
    /\ UNCHANGED <<inputVars, paintVars, partVars, homeVars, run, mounted, nRuns, reloads,
                   visualizerSettings>>

---------------------------------------------------------------------------
(* Callbacks of a run into the Home page.  The callbacks of an instance    *)
(* whose page was torn down set state of an unmounted page: no effect.     *)

\* onProgress = setExportProgress
HomeOnProgress(r, v) ==
    /\ exportProgress' = IF r = mounted THEN v ELSE exportProgress
    /\ UNCHANGED <<audioFile, imageFile, isProcessing, exportError,
                   exportedVideoUrl, mounted>>

\* onError: setExportError(error); setIsProcessing(false), which unmounts
HomeOnError(r, msg) ==
    /\ exportError' = IF r = mounted THEN msg ELSE exportError
    /\ isProcessing' = IF r = mounted THEN FALSE ELSE isProcessing
    /\ mounted' = IF r = mounted THEN 0 ELSE mounted
    /\ UNCHANGED <<audioFile, imageFile, exportProgress, exportedVideoUrl>>

\* onComplete: setExportedVideoUrl(url); setIsProcessing(false), which unmounts
HomeOnComplete(r, v) ==
    /\ exportedVideoUrl' = IF r = mounted THEN r ELSE exportedVideoUrl
    /\ isProcessing' = IF r = mounted THEN FALSE ELSE isProcessing
    /\ exportProgress' = IF r = mounted THEN v ELSE exportProgress
    /\ mounted' = IF r = mounted THEN 0 ELSE mounted
    /\ UNCHANGED <<audioFile, imageFile, exportError>>

\* the download link Home renders: {exportedVideoUrl && !isProcessing &&
\* <a href={exportedVideoUrl} download="visualization.mp4">}
DownloadLink ==
    [ shown    |-> exportedVideoUrl # 0 /\ ~isProcessing,
      href     |-> exportedVideoUrl,
      download |-> <<"visualization.", "mp4">> ]

\* the error line Home renders, inside the processing panel:
\* {isProcessing && (... {exportError && <p>{exportError}</p>} ...)}
ErrorShown == isProcessing /\ exportError # "null"

\* the record of run r after a callback that ended it: the unmount that
\* setIsProcessing(false) causes runs the effect cleanup
Ended(r, rec) == IF r = mounted THEN Cleanup(rec) ELSE rec

\* catch (error) { onError(msg) } of load and of exportVideo
Catch(r, msg) ==
    /\ run' = [run EXCEPT ![r] = Ended(r, Fail(run[r], msg))]
    /\ HomeOnError(r, msg)
    /\ UNCHANGED <<inputVars, paintVars, partVars, previewVars, nRuns, reloads>>

---------------------------------------------------------------------------
(* load, exportVideo, captureFrames *)

\* const outputExt = exportSettings.format === 'webm' ? 'webm' : 'mp4'
OutputExt(format) == IF format = "webm" THEN "webm" ELSE "mp4"

\* const codec = exportSettings.format === 'webm' ? 'libvpx-vp9' : 'libx264'
VideoCodec(format) == IF format = "webm" THEN "libvpx-vp9" ELSE "libx264"

\* the audio codec chosen without looking at the format
AudioCodec_aac(format) == "aac"

\* '-c:a', exportSettings.format === 'webm' ? 'libvorbis' : 'aac'
AudioCodec(format) == IF format = "webm" THEN "libvorbis" ELSE "aac"

\* { high: '8M', medium: '4M', low: '2M' }[exportSettings.quality]
Bitrate(quality) ==
    CASE quality = "high"   -> "8M"
      [] quality = "medium" -> "4M"
      [] quality = "low"    -> "2M"
      [] OTHER              -> "undefined"

\* `output.${outputExt}`
OutputFile(outputExt) == <<"output.", outputExt>>

\* const mimeType = exportSettings.format === 'webm' ? 'video/webm' : 'video/mp4'
MimeType(format) == IF format = "webm" THEN "video/webm" ELSE "video/mp4"

\* the argument list of ffmpeg.exec, each argument a string in pieces
ExecArgs(rec) ==
    << <<"-framerate">>, ToDigits(rec.fps),
       <<"-i">>, <<"frame%06d.jpg">>,
       <<"-i">>, InputAudio,
       <<"-c:v">>, <<VideoCodec(rec.format)>>,
       <<"-c:a">>, <<AudioCodec(rec.format)>>,
       <<"-b:v">>, <<Bitrate(rec.quality)>>,
       <<"-pix_fmt">>, <<"yuv420p">>,
       <<"-shortest">>,
       OutputFile(OutputExt(rec.format)) >>

\* await ffmpeg.exec([... '-framerate', exportSettings.fps, '-i', 'frame%06d.jpg',
\* '-i', 'input.mp3', ...]) is called
InvokeExec(rec) ==
    [rec EXCEPT !.pc = "execWait",
                !.execArgs = ExecArgs(rec),
                !.execCalls = @ + 1,
                !.execFramerate = rec.fps,
                !.execWrites = Len(rec.writes),
                !.execAudio = \E i \in 1..Len(rec.writes) : rec.writes[i] = InputAudio]

\* the settings read from Home's current state at every frame
SettingsOf_live(rec) == visualizerSettings

\* `settings` inside captureFrames: the prop of the render whose effect
\* called load(), the effect having no dependencies
SettingsOf(rec) == rec.settings

\* the loop test off by one: the last frame is never drawn
LoopTest_offByOne(rec, f) ==
    IF f < rec.totalFrames - 1
    THEN [rec EXCEPT !.frame = f, !.pc = "writeWait",
                     !.sampled = Append(@, rec.playhead),
                     !.paintedWith = @ \cup {SettingsOf(rec)},
                     !.lateFrames = @ \/ visualizerSettings # rec.settings]
    ELSE InvokeExec([rec EXCEPT !.frame = f])

\* the loop of captureFrames at its test, with loop variable f: either the
\* analyser is read where the playing source now is, the next frame is drawn
\* and its writeFile awaited, or the loop ends, the source is stopped and
\* exportVideo goes on to the encoder
LoopTest(rec, f) ==
    IF f < rec.totalFrames
    THEN [rec EXCEPT !.frame = f, !.pc = "writeWait",
                     !.sampled = Append(@, rec.playhead),
                     !.paintedWith = @ \cup {SettingsOf(rec)},
                     !.lateFrames = @ \/ visualizerSettings # rec.settings]
    ELSE InvokeExec([rec EXCEPT !.frame = f])

\* ffmpeg.load resolved: exportVideo runs up to the await in setupCanvas
LoadOk(r) ==
    /\ run[r].pc = "loading"
    /\ IF run[r].ffmpegRef
       THEN /\ run' = [run EXCEPT ![r] =
                         [Report(@, 0) EXCEPT !.audioCtx = "running",
                                              !.pc = "imgWait"]]
            /\ HomeOnProgress(r, 0)
       ELSE \* if (!ffmpegRef.current) return
            /\ run' = [run EXCEPT ![r] = [@ EXCEPT !.pc = "done"]]
            /\ UNCHANGED <<homeVars, mounted>>
    /\ UNCHANGED <<inputVars, paintVars, partVars, previewVars, nRuns, reloads>>

\* toBlobURL or ffmpeg.load rejected
LoadFail(r) ==
    /\ run[r].pc = "loading"
    /\ Catch(r, "Failed to load FFmpeg")

\* img.onload: the only way the promise of setupCanvas resolves
ImgLoaded(r) ==
    /\ run[r].pc = "imgWait"
    /\ imageAsset.loadable
    /\ run' = [run EXCEPT ![r] = [Report(@, 10) EXCEPT !.pc = "bufWait"]]
    /\ HomeOnProgress(r, 10)
    /\ UNCHANGED <<inputVars, paintVars, partVars, previewVars, nRuns, reloads>>

\* audioFile.arrayBuffer() resolved: decodeAudioData is called
ArrayBufferOk(r) ==
    /\ run[r].pc = "bufWait"
    /\ run' = [run EXCEPT ![r] =
                 [@ EXCEPT !.pc = "decodeWait", !.decodeCalls = @ + 1]]
    /\ UNCHANGED <<inputVars, paintVars, partVars, previewVars, homeVars, mounted, nRuns, reloads>>

\* audioFile.arrayBuffer() rejected
ArrayBufferFail(r) ==
    /\ run[r].pc = "bufWait"
    /\ Catch(r, "Failed to export video")

\* decodeAudioData resolved: onProgress(20), then captureFrames up to its
\* first await
DecodeOk(r) ==
    /\ run[r].pc = "decodeWait"
    /\ audioAsset.decodable
    /\ run' = [run EXCEPT ![r] =
                 IF run[r].ffmpegRef
                 THEN LoopTest([Report(@, 20) EXCEPT
                                  !.totalFrames = TotalFramesOf(audioAsset.dur)], 0)
                 ELSE \* captureFrames: if (!ffmpegRef.current) return
                      InvokeExec(Report(@, 20))]
    /\ HomeOnProgress(r, 20)
    /\ UNCHANGED <<inputVars, paintVars, partVars, previewVars, nRuns, reloads>>

\* a rejected decodeAudioData swallowed: the run goes on to the encoder
DecodeFail_swallow(r) ==
    /\ run[r].pc = "decodeWait"
    /\ ~audioAsset.decodable
    /\ run' = [run EXCEPT ![r] = InvokeExec(Report(@, 20))]
    /\ HomeOnProgress(r, 20)
    /\ UNCHANGED <<inputVars, paintVars, partVars, previewVars, nRuns, reloads>>

\* decodeAudioData rejected
DecodeFail(r) ==
    /\ run[r].pc = "decodeWait"
    /\ ~audioAsset.decodable
    /\ Catch(r, "Failed to export video")

\* ffmpeg.writeFile resolved: frameCount, onProgress, then the frame delay
WriteOk(r) ==
    /\ run[r].pc = "writeWait"
    /\ LET v == FrameProgress(run[r].frame, run[r].totalFrames)
       IN /\ run' = [run EXCEPT ![r] =
                       [Report(@, v) EXCEPT
                           !.writes = Append(@, FrameFile(run[r].frame)),
                           !.frameCount = run[r].frame,
                           !.pc = "frameDelay"]]
          /\ HomeOnProgress(r, v)
    /\ UNCHANGED <<inputVars, paintVars, partVars, previewVars, nRuns, reloads>>

\* ffmpeg.writeFile rejected
WriteFail(r) ==
    /\ run[r].pc = "writeWait"
    /\ Catch(r, "Failed to export video")

\* the loop stepping by two frames
FrameTick_skip(r) ==
    /\ run[r].pc = "frameDelay"
    /\ run' = [run EXCEPT ![r] =
                 LoopTest([@ EXCEPT !.playhead = @ + 1], run[r].frame + 2)]
    /\ UNCHANGED <<inputVars, paintVars, partVars, previewVars, homeVars, mounted, nRuns, reloads>>

\* the setTimeout(1000 / fps) of the loop fired, one frame period of
\* playback later: frame++ and the loop test
FrameTick(r) ==
    /\ run[r].pc = "frameDelay"
    /\ run' = [run EXCEPT ![r] =
                 LoopTest([@ EXCEPT !.playhead = @ + 1], run[r].frame + 1)]
    /\ UNCHANGED <<inputVars, paintVars, partVars, previewVars, homeVars, mounted, nRuns, reloads>>

\* Playback goes on in real time while the loop is suspended: writeFile
\* takes its time and a timer may fire late.  One more frame
\* period has passed, up to MaxLag periods beyond the nominal 1/fps a frame.
Elapse(r) ==
    /\ run[r].pc \in {"writeWait", "frameDelay"}
    /\ run[r].playhead - run[r].frame < MaxLag
    /\ run' = [run EXCEPT ![r] = [@ EXCEPT !.playhead = @ + 1]]
    /\ UNCHANGED <<inputVars, paintVars, partVars, previewVars, homeVars, mounted, nRuns, reloads>>

\* ffmpeg.exec resolved: onProgress(90), readFile is called.  The encoder is
\* an external collaborator: whether it resolves or rejects is its choice,
\* whatever the store holds.
ExecOk(r) ==
    /\ run[r].pc = "execWait"
    /\ run' = [run EXCEPT ![r] =
                 [Report(@, 90) EXCEPT
                     !.pc = "readWait",
                     !.readName = OutputFile(OutputExt(run[r].format))]]
    /\ HomeOnProgress(r, 90)
    /\ UNCHANGED <<inputVars, paintVars, partVars, previewVars, nRuns, reloads>>

\* a rejected exec reported and then tried again
ExecFail_retry(r) ==
    /\ run[r].pc = "execWait"
    /\ run' = [run EXCEPT ![r] =
                 InvokeExec([@ EXCEPT !.errorCalls = @ + 1,
                                      !.errorMsg = "Failed to export video"])]
    /\ UNCHANGED <<inputVars, paintVars, partVars, previewVars, homeVars, mounted, nRuns, reloads>>

\* ffmpeg.exec rejected
ExecFail(r) ==
    /\ run[r].pc = "execWait"
    /\ Catch(r, "Failed to export video")

\* ffmpeg.readFile resolved: onProgress(100), onComplete(url), then the
\* audio context is closed
ReadOk(r) ==
    /\ run[r].pc = "readWait"
    /\ run' = [run EXCEPT ![r] =
                 Ended(r, [Report(@, 100) EXCEPT
                              !.pc = "done",
                              !.outcome = "completed",
                              !.completeCalls = @ + 1,
                              !.mimeType = MimeType(run[r].format),
                              !.audioCtx = IF @ = "null" THEN "null" ELSE "closed",
                              !.closeCalls = IF run[r].audioCtx = "null"
                                             THEN @ ELSE @ + 1])]
    /\ HomeOnComplete(r, 100)
    /\ UNCHANGED <<inputVars, paintVars, partVars, previewVars, nRuns, reloads>>

\* ffmpeg.readFile rejected (no output file)
ReadFail(r) ==
    /\ run[r].pc = "readWait"
    /\ Catch(r, "Failed to export video")

---------------------------------------------------------------------------
(* setupVisualizer and the handlers it installs *)

otherVars == <<inputVars, paintVars, partVars, homeVars, run, mounted, nRuns, reloads,
               isPreviewing, visualizerSettings, restartTimer>>

\* the image loaded, without the test of isMounted after the await
PvImgLoaded_unguarded(g) ==
    /\ proc.setup[g].pc = "imgWait"
    /\ imageAsset.loadable
    /\ proc' = IF proc.setup[g].isMounted
               THEN [proc EXCEPT !.setup[g].pc = "armed",
                                 !.src = TRUE, !.handlers = g]
               ELSE [proc EXCEPT !.setup[g].pc = "armed",
                                 !.setup[g].actedAfter = TRUE]
    /\ UNCHANGED otherVars

\* img.onload of closure g: if (!isMounted) return; otherwise the audio
\* element gets its src and the two handlers of this closure
PvImgLoaded(g) ==
    /\ proc.setup[g].pc = "imgWait"
    /\ imageAsset.loadable
    /\ proc' = IF proc.setup[g].isMounted
               THEN [proc EXCEPT !.setup[g].pc = "armed",
                                 !.src = TRUE, !.handlers = g]
               ELSE [proc EXCEPT !.setup[g].pc = "returned"]
    /\ UNCHANGED otherVars

\* the image failed to load, the catch without its test of isMounted
PvImgError_unguarded(g) ==
    /\ proc.setup[g].pc = "imgWait"
    /\ ~imageAsset.loadable
    /\ proc' = [PvCleanup(proc, proc.inst) EXCEPT
                  !.setup[g].pc = IF proc.setup[g].isMounted
                                  THEN "failed" ELSE "returned",
                  !.error = TRUE]
    /\ UNCHANGED otherVars

\* the image failed to load, the failure written to Home's export error too
PvImgError_reports(g) ==
    /\ proc.setup[g].pc = "imgWait"
    /\ ~imageAsset.loadable
    /\ proc' = IF proc.setup[g].isMounted
               THEN [PvCleanup(proc, TRUE) EXCEPT !.setup[g].pc = "failed",
                                                  !.error = TRUE]
               ELSE [proc EXCEPT !.setup[g].pc = "returned"]
    /\ exportError' = IF proc.setup[g].isMounted
                      THEN "Failed to set up visualizer. Please try again."
                      ELSE exportError
    /\ UNCHANGED <<inputVars, paintVars, partVars, audioFile, imageFile, isProcessing,
                   exportProgress, exportedVideoUrl, run, mounted, nRuns,
                   reloads, isPreviewing, visualizerSettings, restartTimer>>

\* img.onerror of closure g: the catch, if (!isMounted) return; setError; cleanup()
PvImgError(g) ==
    /\ proc.setup[g].pc = "imgWait"
    /\ ~imageAsset.loadable
    /\ proc' = IF proc.setup[g].isMounted
               THEN [PvCleanup(proc, TRUE) EXCEPT !.setup[g].pc = "failed",
                                                  !.error = TRUE]
               ELSE [proc EXCEPT !.setup[g].pc = "returned"]
    /\ UNCHANGED otherVars

\* the audio element can play through: oncanplaythrough calls play(), which
\* queues the play event
PvCanPlayThrough ==
    /\ proc.inst /\ proc.src /\ proc.handlers # 0
    /\ audioAsset.decodable
    /\ ~proc.playing /\ ~proc.playQueued
    /\ proc.setup[proc.handlers].isMounted
    /\ proc' = [proc EXCEPT !.playQueued = TRUE, !.playing = TRUE]
    /\ UNCHANGED otherVars

\* the play event, its handler calling draw() whether or not a context exists
PvOnPlay_unguarded ==
    /\ proc.inst /\ proc.playQueued
    /\ proc' = [proc EXCEPT !.playQueued = FALSE,
                            !.audioCtx = "running",
                            !.ctxOpen = IF proc.audioCtx = "null" THEN @ + 1 ELSE @,
                            !.animation = proc.handlers,
                            !.pending = @ + 1,
                            !.setup[proc.handlers].drew = TRUE,
                            !.drawnWith = proc.setup[proc.handlers].settings]
    /\ UNCHANGED otherVars

\* the play event: onplay creates the audio context and the analyser once
\* and calls draw(), which paints and requests the next frame
PvOnPlay ==
    /\ proc.inst /\ proc.playQueued
    /\ proc' = IF proc.audioCtx = "null"
               THEN [proc EXCEPT !.playQueued = FALSE,
                                 !.audioCtx = "running",
                                 !.ctxOpen = @ + 1,
                                 !.animation = proc.handlers,
                                 !.pending = @ + 1,
                                 !.setup[proc.handlers].drew = TRUE,
                                 !.drawnWith = proc.setup[proc.handlers].settings]
               ELSE [proc EXCEPT !.playQueued = FALSE]
    /\ UNCHANGED otherVars

\* requestAnimationFrame calls draw of closure animation
PvDrawTick ==
    /\ proc.animation # 0
    /\ proc.ticks = 0
    /\ proc' = [proc EXCEPT
                  !.ticks = 1,
                  !.drawnWith = proc.setup[proc.animation].settings,
                  !.setup[proc.animation].actedAfter =
                      @ \/ ~proc.setup[proc.animation].isMounted]
    /\ UNCHANGED otherVars

\* the play event queued on an audio element that was unmounted meanwhile:
\* its onplay finds audioContextRef.current null, creates a context and
\* starts a draw loop that nothing cancels
PvStrayPlay ==
    /\ proc.strayPlay # 0
    /\ proc' = [proc EXCEPT !.strayPlay = 0,
                            !.strayLoop = proc.strayPlay,
                            !.ctxOpen = @ + 1,
                            !.setup[proc.strayPlay].actedAfter = TRUE]
    /\ UNCHANGED otherVars

\* the user pauses the audio with its controls: no handler is installed
\* for it, the draw loop goes on
PvPause ==
    /\ proc.inst /\ proc.src /\ proc.playing /\ ~proc.playQueued
    /\ proc' = [proc EXCEPT !.playing = FALSE]
    /\ UNCHANGED otherVars

\* the user resumes it with its controls: a play event is queued
PvResume ==
    /\ proc.inst /\ proc.src /\ proc.handlers # 0
    /\ audioAsset.decodable
    /\ ~proc.playing /\ ~proc.playQueued
    /\ proc' = [proc EXCEPT !.playQueued = TRUE, !.playing = TRUE]
    /\ UNCHANGED otherVars

\* the steps of the preview
PvNext ==
    \/ \E g \in SetupIds : PvImgLoaded(g) \/ PvImgError(g)
    \/ PvCanPlayThrough
    \/ PvOnPlay
    \/ PvDrawTick
    \/ PvStrayPlay

\* the steps of one export run
RunNext(r) ==
    \/ LoadOk(r) \/ LoadFail(r)
    \/ ImgLoaded(r)
    \/ ArrayBufferOk(r) \/ ArrayBufferFail(r)
    \/ DecodeOk(r) \/ DecodeFail(r)
    \/ WriteOk(r) \/ WriteFail(r)
    \/ FrameTick(r)
    \/ ExecOk(r) \/ ExecFail(r)
    \/ ReadOk(r) \/ ReadFail(r)

\* the Home page as the user drives it
HomeNext == HandleDropAudio \/ HandleDropImage \/ HandleExport

Next == HomeNext \/ PageReload \/ (\E r \in RunIds : RunNext(r))

Spec == Init /\ [][Next]_vars

\* the first export of a page
FirstExport == nRuns = 0 /\ HandleExport

\* one export, from the file drops to the end of the run
NextLong == HandleDropAudio \/ HandleDropImage \/ FirstExport \/ RunNext(1)

SpecLong == InitLong /\ [][NextLong]_vars

\* every await of a run settles eventually: the event loop runs the
\* continuation of a settled promise and fires a timer that is due
\* the page with its live preview: a playable track of one tick or a
\* corrupt one
InitPreview == InitWith(AudioAssets({1}))

NextPreview ==
    \/ HandleDropAudio \/ HandleDropImage
    \/ HandlePreview
    \/ SetVisualizerSettings
    \/ RestartPreview
    \/ PvNext

SpecPreview == InitPreview /\ [][NextPreview]_vars

\* the live preview with the controls of its audio element: play, pause,
\* resume, file drops that run the effect again, Preview and Stop
NextLoop ==
    \/ HandleDropAudio \/ HandleDropImage
    \/ HandlePreview
    \/ PvPause \/ PvResume
    \/ PvNext

SpecLoop == InitPreview /\ [][NextLoop]_vars

\* the page with its live preview and one export
NextBoth ==
    \/ HandleDropAudio \/ HandleDropImage
    \/ HandlePreview
    \/ PvNext
    \/ FirstExport
    \/ RunNext(1)

SpecBoth == InitPreview /\ [][NextBoth]_vars

\* the page as the user drives it, without teardown: Export clicks, file
\* drops, and the completions and errors of the runs, which take their time
NextHome ==
    \/ HomeNext
    \/ \E r \in RunIds : RunNext(r)
    \/ \E r \in RunIds : Elapse(r)

SpecHome == Init /\ [][NextHome]_vars

\* one export while the user moves the controls of the settings panel
NextSettings ==
    \/ HandleDropAudio \/ HandleDropImage
    \/ FirstExport
    \/ SetVisualizerSettings
    \/ RunNext(1)

SpecSettings == Init /\ [][NextSettings]_vars

\* the bar loop alone, over every bar
InitColor ==
    /\ InitOf(AudioAssets({}), Bars)
    /\ imageAsset.loadable
    /\ exportSettings.fps = FPS

SpecColor == InitColor /\ [][PaintBar]_vars

\* the composition of one frame, over every layout and export setting
InitLayout ==
    /\ InitAll(AudioAssets({}), LayoutBars, AllExports)
    /\ imageAsset.loadable

SpecLayout == InitLayout /\ [][DrawFrame]_vars

\* the two renderers side by side on a 1280x720 buffer, over every setting
InitCompare ==
    /\ InitAll(AudioAssets({}), CompareBars, DefaultExports)
    /\ imageAsset.loadable
    /\ exportSettings.fps = FPS

SpecCompare == InitCompare /\ [][DrawFrame]_vars

\* the earlier VideoProcessor, mounted by Home once Preview was clicked
SpecLegacy == InitPreview /\ [][LegacyNext]_vars

\* the AudioVisualizer over mounts, audioFile changes and unmounts
SpecVisualizer == InitPreview /\ [][VisualizerNext]_vars

\* the FFmpeg-based VideoProcessor under file drops and Create Video
SpecEncoder == InitPreview /\ [][EncoderNext]_vars

\* the upload server under a sequence of requests
SpecUpload == InitPreview /\ [][UploadNext]_vars

\* the legacy page under submits and play events
SpecPage == InitPreview /\ [][PageNext]_vars
\* requests settle and timers fire
FairPage == SpecPage /\ WF_vars(PageProgress)

\* exports of one file after another: a track of one tick and a corrupt one
NextErrors ==
    \/ HomeNext
    \/ HandleDropOtherAudio
    \/ \E r \in RunIds : RunNext(r)

SpecErrors == InitPreview /\ [][NextErrors]_vars

\* one export of a track of one tick, over every export setting
InitEncode == InitAll(AudioAssets({1}), {DefaultBar}, AllExports)

SpecEncode == InitEncode /\ [][NextLong]_vars

FairSpec == Spec /\ \A r \in RunIds : WF_vars(RunNext(r))


---------------------------------------------------------------------------
(* Reading the store the way the encoder's frame%06d.jpg pattern does *)

DigitValue(c) == CHOOSE d \in 0..9 : Digit(d) = c

IsDigit(c) == \E d \in 0..9 : Digit(d) = c

RECURSIVE DigitsValue(_)
DigitsValue(ds) ==
    IF ds = << >> THEN 0
    ELSE 10 * DigitsValue(SubSeq(ds, 1, Len(ds) - 1)) + DigitValue(ds[Len(ds)])

\* name is "frame" <at least six digits> ".jpg"
IsFrameFile(name) ==
    /\ Len(name) >= PadWidth + 2
    /\ name[1] = "frame"
    /\ name[Len(name)] = ".jpg"
    /\ \A i \in 2..(Len(name) - 1) : IsDigit(name[i])

FrameIndexOf(name) == DigitsValue(SubSeq(name, 2, Len(name) - 1))

Rendering == {"writeWait", "frameDelay"}

---------------------------------------------------------------------------
(* C1: the frame keys a run writes are frame000000.jpg, frame000001.jpg,   *)
(* ...: the i-th file written is a frame file whose index is i - 1, so the *)
(* indices start at 0 and increase by one, with no gap and no repeat.      *)
C1_FrameKeysSequential ==
    \A r \in RunIds :
        \A i \in 1..Len(run[r].writes) :
            /\ IsFrameFile(run[r].writes[i])
            /\ FrameIndexOf(run[r].writes[i]) = i - 1

\* a run has written all the frames of the five second track
C1_Witness ==
    \E r \in RunIds :
        /\ run[r].totalFrames > 100
        /\ Len(run[r].writes) = run[r].totalFrames

(* C2: the encoder is invoked only once every frame index in               *)
(* [0, totalFrames) has been written, and no frame is written afterwards.  *)
C2_ExecAfterAllFrames ==
    \A r \in RunIds :
        run[r].execCalls > 0 =>
            /\ run[r].execWrites = run[r].totalFrames
            /\ Len(run[r].writes) = run[r].execWrites
            /\ \A k \in 0..(run[r].totalFrames - 1) :
                   \E i \in 1..Len(run[r].writes) : run[r].writes[i] = FrameFile(k)

\* the encoder was invoked for a run of at least two frames
C2_Witness ==
    \E r \in RunIds : run[r].execCalls > 0 /\ run[r].totalFrames >= 2

(* C3: whenever the encoder is invoked, the audio asset has been written   *)
(* to the store under the name the command reads, input.mp3.               *)
C3_AudioSuppliedBeforeExec ==
    \A r \in RunIds : run[r].execCalls > 0 => run[r].execAudio

(* C4: the number of frames rendered is ceil(d * f), f being the frame     *)
(* rate passed to the encoder as -framerate.                               *)
C4_FrameCountLaw ==
    \A r \in RunIds :
        run[r].execCalls > 0 =>
            run[r].totalFrames = CeilDiv(audioAsset.dur * run[r].execFramerate, DurDen)

(* C5: the values a run passes to onProgress are non-decreasing and lie    *)
(* in [0, 100], on every path.                                             *)
C5_ProgressMonotone ==
    \A r \in RunIds :
        LET log == run[r].progressLog
        IN /\ \A i \in 1..Len(log) : log[i] >= 0 /\ log[i] <= 100
           /\ \A i \in 1..Len(log) : \A j \in i..Len(log) : log[i] <= log[j]

\* a run failed after reporting per-frame progress
C5_Witness ==
    \E r \in RunIds :
        /\ run[r].outcome = "failed"
        /\ Len(run[r].writes) >= 2
        /\ Len(run[r].progressLog) >= 5


\* the value reported after frame k of T, as the specification gives it
SpecProgress(k, T) == 20 + ((2 * 70 * k + T) \div (2 * T))

\* the encoder has not returned yet
BeforeEncoderReturn(r) == run[r].pc \in Rendering \cup {"execWait"}

\* the report after frame k is the 4th + k value of the log (after 0, 10, 20)
FrameReportsExact(r) ==
    \A k \in 0..(Len(run[r].writes) - 1) :
        run[r].progressLog[4 + k] = SpecProgress(k, run[r].totalFrames)

C7_CancelStopsRun ==
    \A r \in RunIds :
        run[r].tornDownIn = "Rendering" =>
            /\ Len(run[r].writes) <= run[r].cancelLimit
            /\ run[r].execCalls = 0
            /\ run[r].completeCalls = 0

(* C8: once a later run has started, a run cancelled in Rendering holds no *)
(* open audio context and its frame loop is not running.                   *)
C8_NoCoexistence ==
    \A r1 \in RunIds : \A r2 \in RunIds :
        (r1 < r2 /\ run[r1].tornDownIn = "Rendering" /\ run[r2].pc # "none") =>
            /\ run[r1].audioCtx # "running"
            /\ run[r1].pc \notin Rendering

(* C9: every export run that is started eventually ends, in Completed or   *)
(* in Failed.                                                              *)
C9_EveryRunTerminates ==
    \A r \in RunIds : (run[r].pc # "none") ~> (run[r].pc = "done")

(* C10: onComplete and onError are never both called nor called twice;     *)
(* load, decode and exec are attempted at most once; and after onError the *)
(* run writes no frame, does not invoke the encoder and calls no callback. *)
C10_FailureTerminal ==
    /\ [](\A r \in RunIds :
            /\ run[r].completeCalls + run[r].errorCalls <= 1
            /\ run[r].loadCalls <= 1
            /\ run[r].decodeCalls <= 1
            /\ run[r].execCalls <= 1)
    /\ [][\A r \in RunIds :
            run[r].errorCalls > 0 =>
                /\ run'[r].writes = run[r].writes
                /\ run'[r].execCalls = run[r].execCalls
                /\ run'[r].completeCalls = run[r].completeCalls
                /\ run'[r].errorCalls = run[r].errorCalls]_vars

\* the encoder failed in a run that had written frames
C10_Witness ==
    \E r \in RunIds :
        /\ run[r].errorCalls = 1
        /\ run[r].execCalls = 1
        /\ Len(run[r].writes) >= 2

---------------------------------------------------------------------------
(* Release of resources at the end of a run *)

\* the files in the store of the run's FFmpeg instance: writeFile is the only
\* call of the exporter that changes the store, nothing is ever deleted
Store(rec) == {rec.writes[i] : i \in 1..Len(rec.writes)}

Encoding == {"execWait", "readWait"}

\* C11: when onError is invoked for a failure in Rendering or Encoding, the
\* run's audio context is already closed, its buffered frames are already
\* deleted, and no video URL has been emitted.
C11_ReleasedBeforeOnError ==
    \A r \in RunIds :
        run[r].failedAt \in Rendering \cup Encoding =>
            /\ run[r].errorCtx = "closed"
            /\ ~ \E name \in Store(run[r]) : IsFrameFile(name)
            /\ run[r].completeCalls = 0

\* C12: after onComplete has been called, no frameNNNNNN.jpg written by that
\* run remains in the store.
C12_FramesFreedOnComplete ==
    \A r \in RunIds :
        run[r].completeCalls > 0 =>
            ~ \E name \in Store(run[r]) : IsFrameFile(name)

\* C13: when decoding of the audio fails, onError is called, no frame is
\* written, the encoder is never invoked and onComplete is never called.
C13_DecodeFailureAborts ==
    \A r \in RunIds :
        (run[r].decodeCalls > 0 /\ ~audioAsset.decodable) =>
            /\ run[r].writes = << >>
            /\ run[r].execCalls = 0
            /\ run[r].completeCalls = 0
            /\ run[r].pc # "decodeWait" =>
                   /\ run[r].outcome = "failed"
                   /\ run[r].errorCalls = 1

C13_Witness ==
    \E r \in RunIds :
        /\ ~audioAsset.decodable
        /\ run[r].failedAt = "decodeWait"
        /\ run[r].errorCalls = 1
        /\ run[r].writes = << >>

---------------------------------------------------------------------------
(* Ownership of the export and of the audio graph *)

Active(r) == run[r].pc \notin {"none", "done"}

\* C14: at most one export run is non-terminal at any time, under any
\* sequence of Export clicks, file drops, completions and errors in Home.
C14_AtMostOneActiveRun ==
    Cardinality({r \in RunIds : Active(r)}) <= 1

C14_Witness ==
    /\ run[1].pc = "done"
    /\ Active(2)
    /\ isProcessing

\* C15: a live preview and an export run never both hold an open audio
\* context: starting one first stops the other.
C15_SingleAudioOwner ==
    ~ /\ proc.ctxOpen > 0
      /\ \E r \in RunIds : run[r].audioCtx = "running"

---------------------------------------------------------------------------
(* Sampling of the spectrum *)

Min(a, b) == IF a < b THEN a ELSE b

\* C16: the spectrum of frame k depends only on the decoded samples, the
\* position k / fps and the window size: two runs on the same inputs whose
\* frames were delayed differently read their spectra at the same positions.
C16_SpectrumIndependentOfDelays ==
    \A r1, r2 \in RunIds :
        \A k \in 1..Min(Len(run[r1].sampled), Len(run[r2].sampled)) :
            run[r1].sampled[k] = run[r2].sampled[k]

---------------------------------------------------------------------------
(* Restart of the preview on a settings change *)

\* a step that changes the visualizer settings while the preview is on
SettingsChangedInPreview ==
    /\ isPreviewing
    /\ visualizerSettings' # visualizerSettings

\* the preview is down: no closure is live, no frame is requested, the
\* context is closed and no VideoProcessor is mounted
PreviewDown(p) ==
    /\ ~p.inst
    /\ p.animation = 0
    /\ p.audioCtx = "null"
    /\ \A g \in SetupIds : ~p.setup[g].isMounted

\* C17: after a change of the VisualizerSettings while the preview runs, the
\* old loop is torn down and a new one is started (the restart timer is
\* armed); no tick and no in-flight setup of a closure the change ended acts
\* afterwards, and a running loop paints with the current settings.
C17_SettingsChangeRestarts ==
    /\ [](/\ \A g \in SetupIds :
               proc.setup[g].endedBy = "settings" => ~proc.setup[g].actedAfter
          /\ proc.animation # 0 =>
               /\ proc.setup[proc.animation].isMounted
               /\ proc.setup[proc.animation].settings = visualizerSettings
               /\ proc.drawnWith = visualizerSettings)
    /\ [][SettingsChangedInPreview =>
              PreviewDown(proc') /\ restartTimer' > 0]_vars

C17_Witness ==
    /\ \E g \in SetupIds : proc.setup[g].endedBy = "settings" /\ proc.setup[g].drew
    /\ \E g \in SetupIds : proc.setup[g].endedBy = "settings"
                           /\ proc.setup[g].pc = "returned"
    /\ proc.animation # 0
    /\ proc.ticks = 1
    /\ proc.drawnWith = visualizerSettings
    /\ visualizerSettings > 0

---------------------------------------------------------------------------
(* Settings of an export run *)

\* C18: an export run uses the settings as they were when it started: the
\* frames it renders later and the encoder configuration use those values,
\* whatever Home's settings have become meanwhile.
C18_SettingsSnapshot ==
    \A r \in RunIds :
        /\ run[r].paintedWith \subseteq {run[r].settings}
        /\ run[r].execCalls > 0 => run[r].execFramerate = run[r].fps

C18_Witness ==
    \E r \in RunIds :
        /\ run[r].lateFrames
        /\ run[r].settings # visualizerSettings
        /\ run[r].execCalls > 0
        /\ Len(run[r].writes) >= 2

---------------------------------------------------------------------------
(* Colour law *)

\* every channel of colour c is in [0, 255] and its alpha in [0.3, 1.0]
ChannelsInRange(c) ==
    c.fn \in {"rgb", "rgba"} =>
        /\ 0 <= c.r /\ c.r <= 255 * c.den
        /\ 0 <= c.g /\ c.g <= 255 * c.den
        /\ 0 <= c.b /\ c.b <= 255 * c.den
        /\ c.fn = "rgba" => (3 * c.aden <= 10 * c.a /\ c.a <= c.aden)

\* C19: the colour position p = barHeightPx / maxBarHeightPx is within
\* [0,1] for every spectrum value 0..255 and every bar-height scale 0.1..2.0,
\* so every RGB channel lies in [0,255] and the white alpha in [0.3, 1.0].
C19_PositionClamped ==
    fill.painted =>
        /\ 0 <= fill.position.n /\ fill.position.n <= fill.position.d
        /\ ChannelsInRange(fill.export)
        /\ ChannelsInRange(fill.preview)

\* the endpoint values of each scheme, at position 0 and at position 1:
\* channels of rgb, hue of the rainbow, tenths of the white alpha
Endpoint(scheme, e) ==
    CASE scheme = "greenRed"   -> IF e = 0 THEN <<0, 255, 0>>     ELSE <<255, 0, 0>>
      [] scheme = "bluePurple" -> IF e = 0 THEN <<0, 255, 255>>   ELSE <<255, 100, 255>>
      [] scheme = "purpleGold" -> IF e = 0 THEN <<147, 51, 234>>  ELSE <<255, 242, 36>>
      [] scheme = "oceanBlue"  -> IF e = 0 THEN <<14, 165, 233>>  ELSE <<73, 130, 246>>
      [] scheme = "sunset"     -> IF e = 0 THEN <<249, 115, 22>>  ELSE <<236, 72, 153>>
      [] scheme = "neon"       -> IF e = 0 THEN <<34, 197, 94>>   ELSE <<20, 184, 166>>
      [] scheme = "rainbow"    -> IF e = 0 THEN <<240>>           ELSE <<0>>
      [] scheme = "white"      -> IF e = 0 THEN <<3>>             ELSE <<10>>

\* colour c is the endpoint e of the scheme
IsEndpoint(c, scheme, e) ==
    LET t == Endpoint(scheme, e)
    IN  CASE scheme = "rainbow" -> c.fn = "hsl" /\ c.h = t[1] * c.den
          [] scheme = "white"   -> /\ c.fn = "rgba"
                                   /\ c.r = 255 * c.den /\ c.g = 255 * c.den
                                   /\ c.b = 255 * c.den
                                   /\ 10 * c.a = t[1] * c.aden
          [] OTHER              -> /\ c.fn = "rgb"
                                   /\ c.r = t[1] * c.den
                                   /\ c.g = t[2] * c.den
                                   /\ c.b = t[3] * c.den

---------------------------------------------------------------------------
(* Layout of a frame *)

\* fractions a and b are equal
FracEq(a, b) == IF a.d = b.d THEN a.n = b.n ELSE a.n * b.d = b.n * a.d

\* the whole number k as a fraction
Whole(k) == [n |-> k, d |-> 1]

FracAdd(a, b) ==
    IF a.d = b.d THEN [n |-> a.n + b.n, d |-> a.d]
                 ELSE [n |-> a.n * b.d + b.n * a.d, d |-> a.d * b.d]

\* C21: in every exported frame the row of bars spans the buffer's width
\* edge to edge: barWidth = (W - (N-1)*s)/N, bar i starts at
\* i*(barWidth + s), consecutive bars are s apart and the right edge of the
\* last bar is at W, for every spacing s of 0..10.
C21_RowSpansWidth ==
    canvas.drawn =>
        LET W  == canvas.width
            N  == TotalBars
            sp == bar.barSpacing
            bw == canvas.barWidth
        IN  /\ FracEq(bw, [n |-> W - (N - 1) * sp, d |-> N])
            /\ \A i \in 1..N :
                   FracEq(canvas.xs[i],
                          [n |-> (i - 1) * (bw.n + sp * bw.d), d |-> bw.d])
            /\ \A i \in 1..(N - 1) :
                   FracEq(canvas.xs[i + 1],
                          FracAdd(FracAdd(canvas.xs[i], bw), Whole(sp)))
            /\ FracEq(FracAdd(canvas.xs[N], bw), Whole(W))

\* C22: for every export resolution the frame is composed against the
\* buffer's own dimensions (1280x720 at 720p, 1920x1080 at 1080p): the
\* cleared area and the background image cover bufferWidth x bufferHeight,
\* the row of bars is bufferWidth wide and maxBarHeight = 0.3 * bufferHeight.
C22_ComposedAgainstBuffer ==
    canvas.drawn =>
        /\ canvas.width  = (IF exportSettings.resolution = "1080p" THEN 1920 ELSE 1280)
        /\ canvas.height = (IF exportSettings.resolution = "1080p" THEN 1080 ELSE 720)
        /\ canvas.clearW = canvas.width /\ canvas.clearH = canvas.height
        /\ canvas.imageW = canvas.width /\ canvas.imageH = canvas.height
        /\ canvas.rowWidth = canvas.width
        /\ 10 * canvas.maxBarHeight = 3 * canvas.height

\* C23: every bar is anchored to the chosen edge of the frame buffer: at the
\* bottom its lower edge is at y = bufferHeight and it rises by barHeightPx,
\* at the top its upper edge is at y = 0 and it descends by barHeightPx, for
\* every shape and every export resolution.
C23_AnchoredToEdge ==
    canvas.drawn =>
        /\ FracEq(FracAdd(canvas.extent.upper, canvas.barHeightPx),
                  canvas.extent.lower)
        /\ bar.position = "bottom" =>
               FracEq(canvas.extent.lower, Whole(canvas.height))
        /\ bar.position = "top" =>
               FracEq(canvas.extent.upper, Whole(0))

---------------------------------------------------------------------------
(* The encoder invocation *)

\* the argument that follows `flag` in the argument list
ArgAfter(args, flag) ==
    LET i == CHOOSE k \in 1..(Len(args) - 1) : args[k] = <<flag>> IN args[i + 1]

HasArg(args, a) == \E k \in 1..Len(args) : args[k] = a

\* C24: the encoder configuration is derived from the export settings: webm
\* gives libvpx-vp9, libvorbis, output.webm and video/webm, anything else
\* libx264, aac, output.mp4 and video/mp4; quality high, medium, low give
\* 8M, 4M, 2M; the arguments always contain -shortest and -pix_fmt yuv420p.
C24_EncoderConfig ==
    \A r \in RunIds :
        LET es   == exportSettings
            args == run[r].execArgs
            webm == es.format = "webm"
        IN  /\ run[r].execCalls > 0 =>
                  /\ ArgAfter(args, "-c:v") = <<IF webm THEN "libvpx-vp9" ELSE "libx264">>
                  /\ ArgAfter(args, "-c:a") = <<IF webm THEN "libvorbis" ELSE "aac">>
                  /\ args[Len(args)] = <<"output.", IF webm THEN "webm" ELSE "mp4">>
                  /\ es.quality = "high"   => ArgAfter(args, "-b:v") = <<"8M">>
                  /\ es.quality = "medium" => ArgAfter(args, "-b:v") = <<"4M">>
                  /\ es.quality = "low"    => ArgAfter(args, "-b:v") = <<"2M">>
                  /\ HasArg(args, <<"-shortest">>)
                  /\ ArgAfter(args, "-pix_fmt") = <<"yuv420p">>
            /\ run[r].pc \in {"readWait", "done"} /\ run[r].readName # << >> =>
                  run[r].readName = <<"output.", IF webm THEN "webm" ELSE "mp4">>
            /\ run[r].completeCalls > 0 =>
                  run[r].mimeType = (IF webm THEN "video/webm" ELSE "video/mp4")

\* a webm export at medium quality was encoded and handed over
C24_Witness ==
    /\ exportSettings.format = "webm" /\ exportSettings.quality = "medium"
    /\ run[1].completeCalls > 0
    /\ run[1].execCalls > 0

\* the extension of a file name in pieces
ExtOf(name) == name[Len(name)]

\* C25: the download file name is visualization.<ext> with <ext> the
\* container of the exported video, so that name and contents agree.
C25_DownloadNameMatchesContainer ==
    DownloadLink.shown =>
        LET r == DownloadLink.href IN
        /\ DownloadLink.download = <<"visualization.", ExtOf(run[r].readName)>>
        /\ (run[r].mimeType = "video/webm") = (ExtOf(DownloadLink.download) = "webm")

---------------------------------------------------------------------------
(* Error reporting *)

\* what failed, by the await that rejected
CauseOf(rec) ==
    CASE rec.failedAt = "loading"                          -> "load"
      [] rec.failedAt = "imgWait"                          -> "image"
      [] rec.failedAt \in {"bufWait", "decodeWait"}        -> "audio"
      [] rec.failedAt \in {"writeWait", "execWait", "readWait"} -> "encoder"
      [] OTHER                                             -> "none"

\* C26: the value passed to onError identifies the cause of the failure: it
\* differs between an audio decode failure, an image load failure and an
\* encoder failure.
C26_ErrorIdentifiesCause ==
    \A r1, r2 \in RunIds :
        /\ run[r1].errorCalls > 0 /\ run[r2].errorCalls > 0
        /\ CauseOf(run[r1]) \in {"audio", "image", "encoder"}
        /\ CauseOf(run[r2]) \in {"audio", "image", "encoder"}
        /\ CauseOf(run[r1]) # CauseOf(run[r2])
        => run[r1].errorMsg # run[r2].errorMsg

\* C27: a failed export is surfaced to the user: once onError has set
\* exportError, the element that renders it is shown, and it stays shown
\* until the next export is started (which resets exportError).
C27_ErrorSurfaced ==
    exportError # "null" => ErrorShown

---------------------------------------------------------------------------
(* Failure of the live preview *)

\* setup g of the preview ends in its catch in this step
SetupFails(g) == proc.setup[g].pc = "imgWait" /\ proc'.setup[g].pc = "failed"

\* C28: a setup failure of the live preview stops the preview loop, releases
\* its audio context and sets the preview's own error message, and leaves
\* isProcessing, exportProgress, exportError and exportedVideoUrl of the
\* Home page as they were.
C28_PreviewErrorIsLocal ==
    /\ [](proc.inst /\ proc.setup[proc.current].pc = "failed" =>
             /\ proc.error
             /\ proc.animation = 0
             /\ proc.audioCtx = "null")
    /\ [][\A g \in SetupIds : SetupFails(g) =>
             /\ proc'.error /\ proc'.animation = 0 /\ proc'.audioCtx = "null"
             /\ UNCHANGED <<isProcessing, exportProgress, exportError,
                            exportedVideoUrl>>]_vars

\* the preview has failed while an export is in progress
C28_Witness ==
    /\ proc.inst /\ proc.setup[proc.current].pc = "failed" /\ proc.error
    /\ isProcessing /\ run[1].pc # "none"

---------------------------------------------------------------------------
(* Stopping the live preview *)

\* the preview is off and what took it down last was the Stop button
UserStopped ==
    /\ ~isPreviewing /\ ~proc.inst
    /\ proc.current # 0
    /\ proc.setup[proc.current].endedBy = "stop"

\* a draw loop of the preview is scheduled
LoopRuns == proc.animation # 0 \/ proc.strayLoop # 0

---------------------------------------------------------------------------
(* The end of processing *)

\* onComplete of the mounted run is called in this step
CompletesMounted(r) ==
    r = mounted /\ run'[r].completeCalls > run[r].completeCalls

\* C30: after an Export click processing eventually finishes: onComplete or
\* onError of the run sets isProcessing back to false, so the Preview and
\* Export buttons do not stay disabled for ever, and on success the download
\* link becomes available.
C30_ProcessingFinishes ==
    /\ isProcessing ~> ~isProcessing
    /\ [][\A r \in RunIds : CompletesMounted(r) => DownloadLink'.shown]_vars

---------------------------------------------------------------------------
(* The preview and the export side by side *)

\* C31: for the same spectrum and settings on a 1280x720 buffer the live
\* preview's draw and the export's frame rendering place every bar i at the
\* same x, y, width and height and give it the same colour and glow, for
\* every spacing, scale, shape and position.
C31_PreviewMatchesExport ==
    canvas.drawn /\ canvas.width = canvas.previewWidth /\ canvas.height = CanvasHeight =>
        /\ \A i \in 1..TotalBars : FracEq(canvas.xs[i], canvas.previewXs[i])
        /\ FracEq(canvas.barWidth, canvas.previewBarWidth)
        /\ FracEq(canvas.extent.upper, canvas.previewExtent.upper)
        /\ FracEq(canvas.extent.lower, canvas.previewExtent.lower)
        /\ canvas.color = canvas.previewColor
        /\ canvas.shadowBlur = canvas.previewShadowBlur

---------------------------------------------------------------------------
(* Life cycle of the export's audio context *)

\* awaits at which the run works with its audio context: decodeAudioData,
\* and the analyser read at every frame
UsesContext == {"decodeWait"} \cup Rendering

\* C32: the audio context of an export run goes Unacquired -> Acquired ->
\* Released once: close() is called on it exactly once on every path
\* (success, failure, teardown), never twice, and the run does not use it
\* after it was closed.
C32_ContextReleasedOnce ==
    \A r \in RunIds :
        /\ run[r].closeCalls <= 1
        /\ run[r].pc = "done" /\ run[r].audioCtx # "null" => run[r].closeCalls = 1
        /\ run[r].audioCtx = "closed" => run[r].pc \notin UsesContext

---------------------------------------------------------------------------
(* The render loop of the settings-aware preview *)

\* the effect cleanup of the instance runs in this step: its effect runs
\* again or it is unmounted
CleanupRuns == proc'.nSetups # proc.nSetups \/ (proc.inst /\ ~proc'.inst)

\* C33: a preview instance has at most one render loop and one audio
\* context at any time: under any sequence of play, pause, resume and effect
\* re-runs no more than one requested frame of draw is pending, and cleanup
\* cancels the one that is pending.
C33_OneLoopOneContext ==
    /\ [](/\ proc.pending <= 1
          /\ (proc.pending = 1) = (proc.animation # 0)
          /\ proc.strayLoop = 0 /\ proc.strayPlay = 0 => proc.ctxOpen <= 1
          /\ proc.ctxOpen = 0 => proc.audioCtx = "null")
    /\ [][CleanupRuns => proc'.pending = 0 /\ proc'.audioCtx = "null"]_vars

\* a play event is queued while the context exists and a frame of draw is
\* pending: the audio was paused and played again while the loop runs
C33_Witness ==
    /\ proc.inst /\ proc.playQueued
    /\ proc.audioCtx = "running" /\ proc.pending = 1
    /\ proc.nSetups > 1

---------------------------------------------------------------------------
(* A setup that resumes after its teardown *)

\* setup g, cleaned up while it waited for the image, resumes in this step
StaleResumes(g) ==
    /\ proc.setup[g].pc = "imgWait" /\ ~proc.setup[g].isMounted
    /\ proc'.setup[g].pc # "imgWait"

\* C34: a setupVisualizer that was suspended on the image when its
\* VideoProcessor was torn down, or when its effect ran again, does nothing
\* when it resumes: it sets no audio source, installs no handlers, changes
\* neither the progress nor the error state and starts no render loop.
C34_StaleSetupInert ==
    [][\A g \in SetupIds : StaleResumes(g) =>
          /\ proc' = [proc EXCEPT !.setup[g].pc = "returned"]
          /\ UNCHANGED otherVars]_vars

\* a setup ended by an effect re-run and one ended by a teardown have both
\* resumed since
C34_Witness ==
    /\ \E g \in SetupIds : /\ proc.setup[g].pc = "returned"
                            /\ proc.setup[g].endedBy = "files"
    /\ \E g \in SetupIds : /\ proc.setup[g].pc = "returned"
                            /\ proc.setup[g].endedBy \in {"stop", "settings"}

---------------------------------------------------------------------------
(* The earlier VideoProcessor after an effect re-run *)

\* the play event is delivered to the handler in this step
LgPlayDelivered == legacy.playQueued /\ ~legacy'.playQueued /\ legacy'.played

\* C35: after the effect of the earlier VideoProcessor was cleaned up and
\* ran again in the same instance, starting playback starts the render loop
\* again with a fresh, open audio context: the loop is not left stopped for
\* good, and it never runs against a closed context.
C35_LoopRestartsAfterRerun ==
    /\ [](legacy.loop => legacy.audioCtx = "running")
    /\ [][legacy.nSetups > 1 /\ LgPlayDelivered =>
             legacy'.loop /\ legacy'.audioCtx = "running"]_vars

---------------------------------------------------------------------------
(* The AudioVisualizer *)

\* contexts of the component that are open
AvOpenContexts == {g \in SetupIds : visualizer.ctx[g] = "open"}

\* C36: when an AudioVisualizer is torn down or its audioFile changes, the
\* cleanup closes the context it created and its render loop stops: after
\* any number of audioFile changes at most one render loop and at most one
\* open context exist, none after the teardown, also when the teardown
\* comes before the audio is decoded.
C36_OneLoopOneContext ==
    /\ visualizer.loops <= 1
    /\ Cardinality(AvOpenContexts) <= 1
    /\ ~visualizer.inst => visualizer.loops = 0 /\ AvOpenContexts = {}

---------------------------------------------------------------------------
(* The FFmpeg-based VideoProcessor *)

\* awaits of a processVideo between its first writeFile and its last
\* deleteFile
EnInUse == {"writeAudio", "fetchImage", "writeImage", "exec", "read",
            "deleteAudio", "deleteImage", "deleteOutput"}

\* C37: at most one processVideo uses the shared FFmpeg instance at a time:
\* while a run is between writing audio.mp3 / image.jpg and deleting
\* output.mp4, no other run writes, executes on or deletes those files.
C37_OneRunOnFFmpeg ==
    \A g, h \in RunIds :
        g # h => ~(encoder.pc[g] \in EnInUse /\ encoder.pc[h] \in EnInUse)

---------------------------------------------------------------------------
(* POST /upload *)

\* the answered request came with an audio and with an image file
BothReceived == upload.nAudio >= 1 /\ upload.nImage >= 1

\* C38: every request to POST /upload is answered with JSON: success with
\* both paths only when both files were received, the 400 'No files
\* uploaded' error when a file is missing; the handler never throws.
C38_UploadAnswersJson ==
    /\ ~upload.thrown
    /\ upload.stage = "responded" =>
         /\ upload.res.type = "json"
         /\ upload.res.success => BothReceived /\ upload.res.paths
         /\ ~BothReceived =>
              upload.res.status = 400 /\ upload.res.error = "No files uploaded"

---------------------------------------------------------------------------
(* The legacy page script *)

\* the loading indicator is hidden and its progress reset
LoadingHidden == page.display = "none" /\ page.width = 0

\* C39: the audio graph of the legacy page is built at most once over any
\* sequence of uploads and play events, so at most one draw loop runs, and
\* after every upload attempt, successful or failed, the loading indicator
\* is hidden again with its progress width at 0%.
C39_OneGraphLoadingHidden ==
    /\ [](page.inits <= 1 /\ page.loops <= 1)
    /\ \A g \in SubmitIds : (page.pc[g] # "none") ~> LoadingHidden

\* a failed and a completed upload, the graph built by the first of two
\* play events, the indicator hidden
C39_Witness ==
    /\ \E g \in SubmitIds : page.pc[g] = "failed"
    /\ \E g \in SubmitIds : page.pc[g] = "done"
    /\ page.plays = 2 /\ page.inits = 1 /\ page.loops = 1
    /\ page.frames > 0
    /\ LoadingHidden

=============================================================================
